---- MODULE Spec2Model ----
(***************************************************************************)
(* Task orchestration core of Robotor: TaskManagerImpl                     *)
(* (src/src/task/core/TaskManager.ts), TaskStateMachineImpl                *)
(* (src/src/task/core/TaskStateMachine.ts), TaskRegistryImpl               *)
(* (src/unnamed/part_003), TaskFactoryImpl (src/unnamed/part_002),         *)
(* PluginManagerImpl (src/unnamed/part_004) and TaskServiceRegistry        *)
(* (src/src/task/core/ServiceRegistry.ts).                                 *)
(*                                                                         *)
(* An async method is modelled as a call step (the synchronous prefix up   *)
(* to its first await) and a resume step (the continuation after the       *)
(* awaited operation settled).  Steps of different calls interleave        *)
(* freely at the awaits, as they do on the JavaScript event loop.          *)
(*                                                                         *)
(* Each component has its own specification; a step of one component       *)
(* leaves the variables of the components it does not use unchanged.       *)
(***************************************************************************)
EXTENDS Integers, FiniteSets, Sequences, Bags, TLC

\* ---------------------------------------------------------------- bounds
\* async calls that may be suspended at an await at the same time
MaxCalls == 2
\* addTransition/removeTransition calls made on one state machine
MaxSmOps == 1

\* constructor invocations a factory makes over its lifetime
MaxCtor == 2
\* largest value the counter of a task generator takes
MaxCounter == 3

\* loadPlugin/unloadPlugin calls that may be suspended at an await at the
\* same time
MaxPluginCalls == 2

\* the strings generateTaskId can produce and callers can pass
TaskIds == {"t1", "t2"}

\* values a task's execute operation can resolve with / reject with
Results == {"r1", "r2"}
Errors == {"e1"}

\* ---------------------------------------------------------------- TaskStatus
CREATED == "created"
QUEUED == "queued"
RUNNING == "running"
PAUSED == "paused"
COMPLETED == "completed"
FAILED == "failed"
CANCELLED == "cancelled"
RETRYING == "retrying"

TaskStatus == {CREATED, QUEUED, RUNNING, PAUSED, COMPLETED, FAILED, CANCELLED, RETRYING}

\* ---------------------------------------------------------------- Map helpers
EmptyMap == [k \in {} |-> CREATED]

MapHas(m, k) == k \in DOMAIN m

MapSet(m, k, v) == [x \in (DOMAIN m) \cup {k} |-> IF x = k THEN v ELSE m[x]]

MapDelete(m, k) == [x \in (DOMAIN m) \ {k} |-> m[x]]

VARIABLES
  tasks,        \* TaskManagerImpl.tasks        : id -> Task
  taskStates,   \* TaskManagerImpl.taskStates   : id -> TaskStatus
  activeTasks,  \* TaskManagerImpl.activeTasks  : id -> Task
  inflight,     \* bag of the async calls suspended at an await
  last,         \* what the last step of the manager did and how it ended
  disposedIds,  \* ids that were known at a dispose() and not created again since
  transitions,  \* TaskStateMachineImpl.transitions : status -> set of status
  smTask,       \* the task object handed to TaskStateMachineImpl.transition
  smOps,        \* number of addTransition/removeTransition calls so far
  smLast        \* what the last call on the state machine did

VARIABLES
  taskTypes,        \* TaskRegistryImpl.taskTypes       : name -> TaskType
  taskTypeConfigs,  \* TaskRegistryImpl.taskTypeConfigs : name -> config
  regLast           \* what the last call on the registry did

VARIABLES
  taskCache,   \* TaskFactoryImpl.taskCache, in insertion order : <<[key, task]>>
  ctorCalls,   \* number of TaskType.createTask invocations the factory made
  generators,  \* the generators handed out : handle -> [typeName, inputs, counter]
  genHistory,  \* per generator, the tasks it returned and the calls that failed
  lazy,        \* the lazy handle handed out : [typeName, id, inputs, task]
  lazyPrev,    \* the task the latest successful get() of the lazy handle returned
  facLast      \* what the last call on the factory did

VARIABLES
  plugins,        \* PluginManagerImpl.plugins       : name -> TaskPlugin
  pluginConfigs,  \* PluginManagerImpl.pluginConfigs : name -> PluginConfig
  pluginOrder,    \* the keys of PluginManagerImpl.plugins in insertion order
  pmInflight,     \* bag of the loadPlugin/unloadPlugin calls suspended at an await
  pmLast          \* what the last step of the plugin manager did

VARIABLES
  services,        \* TaskServiceRegistry.services       : id -> instance
  serviceConfigs,  \* TaskServiceRegistry.serviceConfigs : id -> ServiceConfig
  svcLast          \* what the last call a client made on the service registry did

\* the state of the manager, of a standalone state machine, of the registry,
\* of the factory, of the plugin manager and of the service registry
tmVars == <<tasks, taskStates, activeTasks, inflight, last, disposedIds>>
smVars == <<transitions, smTask, smOps, smLast>>
regVars == <<taskTypes, taskTypeConfigs, regLast>>
facVars == <<taskCache, ctorCalls, generators, genHistory, lazy, lazyPrev, facLast>>
pmVars == <<plugins, pluginConfigs, pluginOrder, pmInflight, pmLast>>
svcVars == <<services, serviceConfigs, svcLast>>
\* the components a step of the manager or of the state machine leaves alone
coreOthers == <<regVars, facVars, pmVars, svcVars>>
\* the components a call on the registry leaves alone
regOthers == <<tmVars, smVars, facVars, pmVars, svcVars>>
\* the components a call on the factory leaves alone
facOthers == <<tmVars, smVars, regVars, pmVars, svcVars>>
\* the components a step of the plugin manager leaves alone
pmOthers == <<tmVars, smVars, facVars, svcVars>>
\* the components a call on the service registry leaves alone
svcOthers == <<tmVars, smVars, regVars, facVars, pmVars>>
vars == <<tasks, taskStates, activeTasks, inflight, last, disposedIds,
          transitions, smTask, smOps, smLast,
          taskTypes, taskTypeConfigs, regLast,
          taskCache, ctorCalls, generators, genHistory, lazy, lazyPrev, facLast,
          plugins, pluginConfigs, pluginOrder, pmInflight, pmLast,
          services, serviceConfigs, svcLast>>

\* ---------------------------------------------------------------- task types
\* names of task types, and the versions that tell two descriptors of one
\* name apart
TypeNames == {"A", "B"}
Versions == {"v1", "v2"}
TaskTypes == [name : TypeNames, version : Versions]
NoType == [name |-> "none", version |-> "none"]
\* the configurations registerTaskTypeConfig is called with
Configs == {"c1", "c2"}

\* foundConfig is the configuration the call found attached to its name
RegStep(op, name, taskType, config, outcome, error, foundConfig) ==
  [op |-> op, name |-> name, taskType |-> taskType, config |-> config,
   outcome |-> outcome, error |-> error, foundConfig |-> foundConfig]

FoundConfig(configs, taskTypeName) ==
  IF MapHas(configs, taskTypeName) THEN configs[taskTypeName] ELSE "undefined"

\* ---------------------------------------------------------------- tasks of a factory
\* ids and inputs callers pass to the factory, handles of the generators
FactoryIds == {"t1", "t2"}
Inputs == {"i1", "i2"}
Generators == {"g1", "g2"}
\* the template inputs and the type name generators are made with, the id
\* and inputs the lazy handle is made with
GeneratorInputs == {"i1"}
GeneratorTypeNames == {"A"}
LazyIds == {"t1"}
LazyInputs == {"i1"}
\* one descriptor per name, for the runs where a name is never registered
\* with two descriptors
TaskTypesV1 == {t \in TaskTypes : t.version = "v1"}

\* no task: null, undefined
NoTask == [id |-> "none", type |-> "none", by |-> "none", inputs |-> "none", serial |-> 0]
NoLazy == [typeName |-> "none", id |-> "none", inputs |-> "none", task |-> NoTask]

\* what a call on the factory was made with (count is the argument of
\* createBatch), the branch of createTask it took (path), the tasks it
\* returned, the constructor invocations it made, and for get() of the lazy
\* handle the task its previous successful get() had returned (before)
FacStep(op, typeName, id, inputs, count, r, returned, before) ==
  [op |-> op, typeName |-> typeName, id |-> id, inputs |-> inputs, count |-> count,
   outcome |-> r.outcome, error |-> IF r.outcome = "threw" THEN "TypeNotFound" ELSE "none",
   path |-> r.path, returned |-> returned, constructed |-> r.constructed, before |-> before]

\* a call that does not go through createTask
Plain == [outcome |-> "returned", path |-> "none", constructed |-> 0]

\* a factory after its construction
InitFactory ==
  /\ taskCache = << >>
  /\ ctorCalls = 0
  /\ generators = EmptyMap
  /\ genHistory = EmptyMap
  /\ lazy = NoLazy
  /\ lazyPrev = NoTask
  /\ facLast = FacStep("constructor", "none", "none", "none", 0, Plain, << >>, NoTask)

\* ---------------------------------------------------------------- plugins
\* the members isValidPlugin asks for
PluginMembers == {"name", "version", "description", "initialize", "destroy", "getTaskTypes"}

\* a plugin object: what new PluginClass() of the module at path yields;
\* types is what its getTaskTypes() returns
Plugin(name, path, types, members) ==
  [name |-> name, path |-> path, types |-> types, members |-> members]

NoPlugin == Plugin("none", "none", << >>, {})

\* the descriptor a plugin provides under a type name
Provided(typeName) == [name |-> typeName, version |-> "v2"]

\* the module paths loadPlugin is called with
PluginPaths == {"/p/alpha.js", "/p/beta.js", "/q/alpha.js", "/p/invalid.js", "/p/missing.js"}

\* what import(path) settles with: two modules export a plugin named alpha,
\* one exports an object without getTaskTypes, one path does not resolve
PluginModules(path) ==
  CASE path = "/p/alpha.js" ->
         [resolves |-> TRUE,
          plugin |-> Plugin("alpha", path, <<Provided("A")>>, PluginMembers)]
    [] path = "/p/beta.js" ->
         [resolves |-> TRUE,
          plugin |-> Plugin("beta", path, <<Provided("B"), Provided("A")>>, PluginMembers)]
    [] path = "/q/alpha.js" ->
         [resolves |-> TRUE,
          plugin |-> Plugin("alpha", path, <<Provided("B")>>, PluginMembers)]
    [] path = "/p/invalid.js" ->
         [resolves |-> TRUE,
          plugin |-> Plugin("gamma", path, << >>, PluginMembers \ {"getTaskTypes"})]
    [] path = "/p/beta/index.js" ->
         [resolves |-> TRUE,
          plugin |-> Plugin("beta", path, <<Provided("B")>>, PluginMembers)]
    [] OTHER -> [resolves |-> FALSE, plugin |-> NoPlugin]

\* pluginPath.split('/')
PathSegments(path) ==
  CASE path = "/p/alpha.js" -> <<"", "p", "alpha.js">>
    [] path = "/p/beta.js" -> <<"", "p", "beta.js">>
    [] path = "/q/alpha.js" -> <<"", "q", "alpha.js">>
    [] path = "/p/invalid.js" -> <<"", "p", "invalid.js">>
    [] path = "/p/missing.js" -> <<"", "p", "missing.js">>
    [] path = "/p/beta/index.js" -> <<"", "p", "beta", "index.js">>

\* file.replace(/\.(js|ts)$/, '')
StripExtension(file) ==
  CASE file = "alpha.js" -> "alpha"
    [] file = "beta.js" -> "beta"
    [] file = "invalid.js" -> "invalid"
    [] file = "missing.js" -> "missing"
    [] file = "index.js" -> "index"
    [] OTHER -> file

\* the modules whose plugins provide different task types
DisjointPaths == {"/p/alpha.js", "/p/beta/index.js"}

PluginNames == {"alpha", "beta"}
\* the plugin a configuration is registered for, and the configurations
ConfiguredPlugins == {"beta"}
PluginConfigs == {"pc1"}

\* the reloadPlugin or clear call a loadPlugin/unloadPlugin call is awaited by:
\* snapshot is the array clear iterates, rest its part still to visit, done
\* the names unloaded for the caller so far; undisturbed tells that at every
\* resumption of clear the loaded plugins were those it had still to unload
Caller(op, arg, snapshot) ==
  [op |-> op, arg |-> arg, snapshot |-> snapshot, rest |-> snapshot, done |-> << >>,
   undisturbed |-> TRUE]

NoCaller == Caller("none", "none", << >>)

\* touched: the type names the step registered or unregistered; caller,
\* callerOutcome and callerError: the awaiting reloadPlugin or clear call and
\* how the step left it
PmStep(op, step, arg, plugin, outcome, error, invoked, touched) ==
  [op |-> op, step |-> step, arg |-> arg, plugin |-> plugin, outcome |-> outcome,
   error |-> error, invoked |-> invoked, touched |-> touched,
   caller |-> NoCaller, callerOutcome |-> "none", callerError |-> "none"]

\* a plugin manager after its construction
InitPlugins ==
  /\ plugins = EmptyMap
  /\ pluginConfigs = EmptyMap
  /\ pluginOrder = << >>
  /\ pmInflight = EmptyBag
  /\ pmLast = PmStep("constructor", "call", "none", NoPlugin, "returned", "none", "none", {})

\* ---------------------------------------------------------------- services
\* the ids a client names, the JavaScript values it registers (objects and the
\* literals 0 and null), and the configurations
ServiceIds == {"s1", "s2"}
ServiceInstances == {"objectA", "objectB", "0", "null"}
ServiceConfigs == {"sc1"}

SvcStep(op, id, instance, outcome, error, returned) ==
  [op |-> op, id |-> id, instance |-> instance, outcome |-> outcome, error |-> error,
   returned |-> returned]

\* a service registry after its construction
InitServices ==
  /\ services = EmptyMap
  /\ serviceConfigs = EmptyMap
  /\ svcLast = SvcStep("constructor", "none", "none", "returned", "none", "none")

\* a registry after its construction
InitRegistry ==
  /\ taskTypes = EmptyMap
  /\ taskTypeConfigs = EmptyMap
  /\ regLast = RegStep("constructor", "none", NoType, "none", "returned", "none", "none")

\* ---------------------------------------------------------------- TaskStateMachineImpl
defineTransitions ==
  [s \in {CREATED, QUEUED, RUNNING, PAUSED, FAILED, CANCELLED, RETRYING} |->
     CASE s = CREATED   -> {QUEUED, RUNNING, CANCELLED}
       [] s = QUEUED    -> {RUNNING, CANCELLED}
       [] s = RUNNING   -> {COMPLETED, FAILED, CANCELLED, PAUSED}
       [] s = PAUSED    -> {RUNNING, CANCELLED}
       [] s = FAILED    -> {QUEUED}
       [] s = CANCELLED -> {QUEUED}
       [] s = RETRYING  -> {QUEUED, RUNNING, CANCELLED}]

\* canTransition answering true for a status without an entry
canTransitionIn_unknownAllowed(tr, from, to) ==
  IF MapHas(tr, from) THEN to \in tr[from] ELSE TRUE

canTransitionIn(tr, from, to) ==
  IF MapHas(tr, from) THEN to \in tr[from] ELSE FALSE

canTransition(from, to) == canTransitionIn(transitions, from, to)

\* Array.from(set): the array is represented by the set of its elements
getAllowedTransitions_canonical(state) ==
  IF MapHas(defineTransitions, state) THEN defineTransitions[state] ELSE {}

getAllowedTransitions(state) ==
  IF MapHas(transitions, state) THEN transitions[state] ELSE {}

\* one array per source state that has a set in the table
getStateGraph == [from \in DOMAIN transitions |-> transitions[from]]

\* ---------------------------------------------------------------- TaskManagerImpl
\* the mock task object createTask builds; its status field is written once
mockTask(taskId) == [id |-> taskId, status |-> CREATED]

Pending == [kind |-> "pending", value |-> "none"]

\* the context executeTask builds for task.execute: its cancellation token is
\* an object literal created with isCancellationRequested false; the manager
\* keeps no reference to it and no operation writes it
executeContext == [cancellationToken |-> [isCancellationRequested |-> FALSE]]

\* a call suspended at an await; an executeTask call holds the context it
\* handed to execute
Call(op, id, settled) ==
  [op |-> op, id |-> id, settled |-> settled,
   context |-> IF op = "executeTask" THEN executeContext ELSE "none"]

\* for dispose the record also names the tasks whose cancel it invoked
\* (cancelled), those of them whose cancel promise rejected and was logged
\* (logged), and the service ids its clear of the service registry dropped
\* (released)
Step(op, step, id, outcome, value, invoked) ==
  [op |-> op, step |-> step, id |-> id, outcome |-> outcome, value |-> value,
   invoked |-> invoked, cancelled |-> {}, logged |-> {}, released |-> {}]

\* the calls suspended at an await
Calls == BagToSet(inflight)

CanSuspend == BagCardinality(inflight) < MaxCalls

Suspend(op, id) == inflight (+) SetToBag({Call(op, id, Pending)})

Finish(c) == inflight (-) SetToBag({c})

\* generateTaskId: a time component and a random suffix; nothing consults
\* this.tasks, so the value is any id, used before or not
generateTaskId == TaskIds

createTask ==
  \E taskId \in generateTaskId :
    /\ tasks' = MapSet(tasks, taskId, mockTask(taskId))
    /\ taskStates' = MapSet(taskStates, taskId, CREATED)
    /\ disposedIds' = disposedIds \ {taskId}
    /\ last' = Step("createTask", "call", taskId, "returned", "none", "none")
    /\ UNCHANGED <<activeTasks, inflight, smVars, coreOthers>>

\* executeTask accepting a paused task as well
executeTaskCheck_pausedRuns(taskId) ==
  IF ~MapHas(tasks, taskId) THEN "NotFound"
  ELSE IF ~MapHas(taskStates, taskId) THEN "NotExecutable"
  ELSE IF taskStates[taskId] \notin {CREATED, QUEUED, PAUSED} THEN "NotExecutable"
  ELSE "none"

\* what executeTask throws before doing anything, or "none"
executeTaskCheck(taskId) ==
  IF ~MapHas(tasks, taskId) THEN "NotFound"
  ELSE IF ~MapHas(taskStates, taskId) THEN "NotExecutable"
  ELSE IF taskStates[taskId] # CREATED /\ taskStates[taskId] # QUEUED THEN "NotExecutable"
  ELSE "none"

executeTaskCall(taskId) ==
  IF executeTaskCheck(taskId) # "none"
  THEN /\ last' = Step("executeTask", "call", taskId, "threw", executeTaskCheck(taskId), "none")
       /\ UNCHANGED <<tasks, taskStates, activeTasks, inflight, disposedIds, smVars, coreOthers>>
  ELSE /\ CanSuspend
       /\ activeTasks' = MapSet(activeTasks, taskId, tasks[taskId])
       /\ taskStates' = MapSet(taskStates, taskId, RUNNING)
       /\ inflight' = Suspend("executeTask", taskId)
       /\ last' = Step("executeTask", "call", taskId, "pending", "none", "execute")
       /\ UNCHANGED <<tasks, disposedIds, smVars, coreOthers>>

\* the promise of task.execute(context) settles: resolves with a result or rejects
executeSettles(c) ==
  /\ c.op = "executeTask"
  /\ c.settled = Pending
  /\ \E o \in ([kind : {"ok"}, value : Results] \cup [kind : {"err"}, value : Errors]) :
       inflight' = Finish(c) (+) SetToBag({Call(c.op, c.id, o)})
  /\ last' = Step("execute", "settle", c.id, "settled", "none", "none")
  /\ UNCHANGED <<tasks, taskStates, activeTasks, disposedIds, smVars, coreOthers>>

\* executeTask recording completed whatever the outcome of execute
executeTaskFinalStatus_alwaysCompleted(settled) == COMPLETED

\* the status executeTask records once the awaited execute has settled
executeTaskFinalStatus(settled) ==
  IF settled.kind = "ok" THEN COMPLETED ELSE FAILED

\* what executeTask hands to its caller once the awaited execute has settled
executeTaskOutcome(settled) ==
  IF settled.kind = "ok" THEN [outcome |-> "returned", value |-> settled.value]
  ELSE [outcome |-> "threw", value |-> settled.value]

\* the finally block leaving the task active when execute threw
executeTaskFinally_onSuccessOnly(active, taskId, settled) ==
  IF settled.kind = "ok" THEN MapDelete(active, taskId) ELSE active

\* the finally block of executeTask: it runs whatever the outcome
executeTaskFinally(active, taskId, settled) == MapDelete(active, taskId)

executeTaskResume(c) ==
  /\ c.op = "executeTask"
  /\ c.settled.kind \in {"ok", "err"}
  /\ LET taskId == c.id
         out == executeTaskOutcome(c.settled)
     IN /\ taskStates' = MapSet(taskStates, taskId, executeTaskFinalStatus(c.settled))
        /\ activeTasks' = executeTaskFinally(activeTasks, taskId, c.settled)
        /\ last' = Step("executeTask", "resume", taskId, out.outcome, out.value, "none")
  /\ inflight' = Finish(c)
  /\ UNCHANGED <<tasks, disposedIds, smVars, coreOthers>>

cancelTaskCall(taskId) ==
  IF ~MapHas(tasks, taskId)
  THEN /\ last' = Step("cancelTask", "call", taskId, "threw", "NotFound", "none")
       /\ UNCHANGED <<tasks, taskStates, activeTasks, inflight, disposedIds, smVars, coreOthers>>
  ELSE /\ CanSuspend
       /\ inflight' = Suspend("cancelTask", taskId)
       /\ last' = Step("cancelTask", "call", taskId, "pending", "none", "cancel")
       /\ UNCHANGED <<tasks, taskStates, activeTasks, disposedIds, smVars, coreOthers>>

\* cancelTask leaving the task in the active set
cancelTaskResume_keepsActive(c) ==
  /\ c.op = "cancelTask"
  /\ taskStates' = MapSet(taskStates, c.id, CANCELLED)
  /\ last' = Step("cancelTask", "resume", c.id, "returned", "none", "none")
  /\ inflight' = Finish(c)
  /\ UNCHANGED <<tasks, activeTasks, disposedIds, smVars, coreOthers>>

\* task.cancel(reason) resolved: the continuation of cancelTask runs
cancelTaskResume(c) ==
  /\ c.op = "cancelTask"
  /\ LET taskId == c.id
     IN /\ taskStates' = MapSet(taskStates, taskId, CANCELLED)
        /\ activeTasks' = MapDelete(activeTasks, taskId)
        /\ last' = Step("cancelTask", "resume", taskId, "returned", "none", "none")
  /\ inflight' = Finish(c)
  /\ UNCHANGED <<tasks, disposedIds, smVars, coreOthers>>

\* the awaited task operation (cancel, pause or resume) rejected: the method
\* rethrows and writes nothing
taskOperationRejects(c) ==
  /\ c.op \in {"cancelTask", "pauseTask", "resumeTask"}
  /\ \E e \in Errors :
       last' = Step(c.op, "resume", c.id, "threw", e, "none")
  /\ inflight' = Finish(c)
  /\ UNCHANGED <<tasks, taskStates, activeTasks, disposedIds, smVars, coreOthers>>

\* pauseTask checking only that the task exists
pauseTaskCheck_anyStatus(taskId) ==
  IF ~MapHas(tasks, taskId) THEN "NotFound" ELSE "none"

\* what pauseTask throws before doing anything, or "none"
pauseTaskCheck(taskId) ==
  IF ~MapHas(tasks, taskId) THEN "NotFound"
  ELSE IF ~MapHas(taskStates, taskId) THEN "NotRunning"
  ELSE IF taskStates[taskId] # RUNNING THEN "NotRunning"
  ELSE "none"

pauseTaskCall(taskId) ==
  IF pauseTaskCheck(taskId) # "none"
  THEN /\ last' = Step("pauseTask", "call", taskId, "threw", pauseTaskCheck(taskId), "none")
       /\ UNCHANGED <<tasks, taskStates, activeTasks, inflight, disposedIds, smVars, coreOthers>>
  ELSE /\ CanSuspend
       /\ inflight' = Suspend("pauseTask", taskId)
       /\ last' = Step("pauseTask", "call", taskId, "pending", "none", "pause")
       /\ UNCHANGED <<tasks, taskStates, activeTasks, disposedIds, smVars, coreOthers>>

pauseTaskResume(c) ==
  /\ c.op = "pauseTask"
  /\ taskStates' = MapSet(taskStates, c.id, PAUSED)
  /\ last' = Step("pauseTask", "resume", c.id, "returned", "none", "none")
  /\ inflight' = Finish(c)
  /\ UNCHANGED <<tasks, activeTasks, disposedIds, smVars, coreOthers>>

\* what resumeTask throws before doing anything, or "none"
resumeTaskCheck(taskId) ==
  IF ~MapHas(tasks, taskId) THEN "NotPaused"
  ELSE IF ~MapHas(taskStates, taskId) THEN "NotPaused"
  ELSE IF taskStates[taskId] # PAUSED THEN "NotPaused"
  ELSE "none"

resumeTaskCall(taskId) ==
  IF resumeTaskCheck(taskId) # "none"
  THEN /\ last' = Step("resumeTask", "call", taskId, "threw", resumeTaskCheck(taskId), "none")
       /\ UNCHANGED <<tasks, taskStates, activeTasks, inflight, disposedIds, smVars, coreOthers>>
  ELSE /\ CanSuspend
       /\ inflight' = Suspend("resumeTask", taskId)
       /\ last' = Step("resumeTask", "call", taskId, "pending", "none", "resume")
       /\ UNCHANGED <<tasks, taskStates, activeTasks, disposedIds, smVars, coreOthers>>

resumeTaskResume(c) ==
  /\ c.op = "resumeTask"
  /\ taskStates' = MapSet(taskStates, c.id, RUNNING)
  /\ last' = Step("resumeTask", "resume", c.id, "returned", "none", "none")
  /\ inflight' = Finish(c)
  /\ UNCHANGED <<tasks, activeTasks, disposedIds, smVars, coreOthers>>

getTaskStatus(taskId) ==
  IF MapHas(taskStates, taskId) THEN taskStates[taskId] ELSE "undefined"

getActiveTasks == DOMAIN activeTasks

\* getTask: the stored task object; callers test the id with getAllTasks first
getTask(taskId) == tasks[taskId]

getAllTasks == DOMAIN tasks

\* the tasks whose cancel operation dispose invokes
disposeCancels_none(active) == {}

disposeCancels(active) == DOMAIN active

\* dispose is synchronous: it starts the cancel operation of every active task
\* without awaiting it, a rejection of the returned promise going to
\* console.error, and clears the three maps and the service registry;
\* suspended calls stay suspended
dispose ==
  /\ \E rejecting \in SUBSET disposeCancels(activeTasks) :
       last' = [Step("dispose", "call", "none", "returned", "none",
                     IF disposeCancels(activeTasks) = {} THEN "none" ELSE "cancel")
                  EXCEPT !.cancelled = disposeCancels(activeTasks),
                         !.logged = rejecting,
                         !.released = DOMAIN services]
  /\ disposedIds' = disposedIds \cup DOMAIN tasks
  /\ activeTasks' = EmptyMap
  /\ tasks' = EmptyMap
  /\ taskStates' = EmptyMap
  /\ services' = EmptyMap
  /\ serviceConfigs' = EmptyMap
  /\ UNCHANGED <<inflight, smVars, regVars, facVars, pmVars, svcLast>>

Init ==
  /\ tasks = EmptyMap
  /\ taskStates = EmptyMap
  /\ activeTasks = EmptyMap
  /\ inflight = EmptyBag
  /\ last = Step("constructor", "call", "none", "returned", "none", "none")
  /\ disposedIds = {}
  /\ transitions = defineTransitions
  /\ smTask = [status |-> CREATED]
  /\ smOps = 0
  /\ smLast = [op |-> "constructor", from |-> "none", to |-> "none", outcome |-> "returned",
               error |-> [kind |-> "none", from |-> "none", to |-> "none"]]
  /\ InitRegistry
  /\ InitFactory
  /\ InitPlugins
  /\ InitServices

\* every step of the manager but createTask
ManagerStep ==
  \/ \E taskId \in TaskIds : executeTaskCall(taskId)
  \/ \E c \in Calls : executeSettles(c)
  \/ \E c \in Calls : executeTaskResume(c)
  \/ \E taskId \in TaskIds : cancelTaskCall(taskId)
  \/ \E c \in Calls : cancelTaskResume(c)
  \/ \E taskId \in TaskIds : pauseTaskCall(taskId)
  \/ \E c \in Calls : pauseTaskResume(c)
  \/ \E taskId \in TaskIds : resumeTaskCall(taskId)
  \/ \E c \in Calls : resumeTaskResume(c)
  \/ \E c \in Calls : taskOperationRejects(c)
  \/ dispose

Next ==
  \/ createTask
  \/ ManagerStep

Spec == Init /\ [][Next]_vars

\* the manager when generateTaskId never repeats an id it has handed out
createTaskUnique ==
  /\ createTask
  /\ last'.id \notin (DOMAIN tasks) \cup disposedIds

NextUniqueIds ==
  \/ createTaskUnique
  \/ ManagerStep

SpecUniqueIds == Init /\ [][NextUniqueIds]_vars

\* ---------------------------------------------------------------- TaskStateMachineImpl operations
NoError == [kind |-> "none", from |-> "none", to |-> "none"]

SmStep(op, from, to, outcome, error) ==
  [op |-> op, from |-> from, to |-> to, outcome |-> outcome, error |-> error]

\* the table after addTransition: the set of from is created when absent
addTransitionIn_replaces(tr, from, to) == MapSet(tr, from, {to})

addTransitionIn(tr, from, to) ==
  MapSet(tr, from, (IF MapHas(tr, from) THEN tr[from] ELSE {}) \cup {to})

\* the table after removeTransition: nothing happens when from has no set
removeTransitionIn(tr, from, to) ==
  IF MapHas(tr, from) THEN MapSet(tr, from, tr[from] \ {to}) ELSE tr

addTransition(from, to) ==
  /\ smOps < MaxSmOps
  /\ transitions' = addTransitionIn(transitions, from, to)
  /\ smOps' = smOps + 1
  /\ smLast' = SmStep("addTransition", from, to, "returned", NoError)
  /\ UNCHANGED <<smTask, tmVars, coreOthers>>

removeTransition(from, to) ==
  /\ smOps < MaxSmOps
  /\ transitions' = removeTransitionIn(transitions, from, to)
  /\ smOps' = smOps + 1
  /\ smLast' = SmStep("removeTransition", from, to, "returned", NoError)
  /\ UNCHANGED <<smTask, tmVars, coreOthers>>

\* the status the task object carries after transition(task, to) resolved:
\* the assignment task.status = to is commented out in the source
transitionCommit(task, to) == task

\* transition has no await: it runs to its end in one step
transition(to) ==
  LET from == smTask.status
  IN IF ~canTransition(from, to)
     THEN /\ smLast' = SmStep("transition", from, to, "threw",
                              [kind |-> "InvalidTransition", from |-> from, to |-> to])
          /\ UNCHANGED <<transitions, smTask, smOps, tmVars, coreOthers>>
     ELSE /\ smTask' = transitionCommit(smTask, to)
          /\ smLast' = SmStep("transition", from, to, "returned", NoError)
          /\ UNCHANGED <<transitions, smOps, tmVars, coreOthers>>

InitSM ==
  /\ tasks = EmptyMap
  /\ taskStates = EmptyMap
  /\ activeTasks = EmptyMap
  /\ inflight = EmptyBag
  /\ last = Step("constructor", "call", "none", "returned", "none", "none")
  /\ disposedIds = {}
  /\ transitions = defineTransitions
  /\ smTask \in [status : TaskStatus]
  /\ smOps = 0
  /\ smLast = SmStep("constructor", "none", "none", "returned", NoError)
  /\ InitRegistry
  /\ InitFactory
  /\ InitPlugins
  /\ InitServices

NextSM ==
  \/ \E from \in TaskStatus, to \in TaskStatus : addTransition(from, to)
  \/ \E from \in TaskStatus, to \in TaskStatus : removeTransition(from, to)
  \/ \E to \in TaskStatus : transition(to)

SpecSM == InitSM /\ [][NextSM]_vars

\* ---------------------------------------------------------------- TaskRegistryImpl
\* register accepts a descriptor only under a name the registry does not hold
registerCheck_never(types, taskType) == TRUE

registerCheck(types, taskType) == ~MapHas(types, taskType.name)

registerStore(types, taskType) == MapSet(types, taskType.name, taskType)

register(taskType) ==
  /\ IF registerCheck(taskTypes, taskType)
     THEN /\ taskTypes' = registerStore(taskTypes, taskType)
          /\ regLast' = RegStep("register", taskType.name, taskType, "none", "returned", "none",
                                FoundConfig(taskTypeConfigs, taskType.name))
     ELSE /\ regLast' = RegStep("register", taskType.name, taskType, "none", "threw",
                                "AlreadyRegistered",
                                FoundConfig(taskTypeConfigs, taskType.name))
          /\ UNCHANGED taskTypes
  /\ UNCHANGED <<taskTypeConfigs, regOthers>>

unregisterCheck(types, taskTypeName) == MapHas(types, taskTypeName)

unregisterTypes(types, taskTypeName) == MapDelete(types, taskTypeName)

unregisterConfigs_kept(configs, taskTypeName) == configs

unregisterConfigs(configs, taskTypeName) == MapDelete(configs, taskTypeName)

unregister(taskTypeName) ==
  /\ IF unregisterCheck(taskTypes, taskTypeName)
     THEN /\ taskTypes' = unregisterTypes(taskTypes, taskTypeName)
          /\ taskTypeConfigs' = unregisterConfigs(taskTypeConfigs, taskTypeName)
          /\ regLast' = RegStep("unregister", taskTypeName, NoType, "none", "returned", "none",
                                FoundConfig(taskTypeConfigs, taskTypeName))
     ELSE /\ regLast' = RegStep("unregister", taskTypeName, NoType, "none", "threw",
                                "NotRegistered",
                                FoundConfig(taskTypeConfigs, taskTypeName))
          /\ UNCHANGED <<taskTypes, taskTypeConfigs>>
  /\ UNCHANGED <<regOthers>>

getTaskType(taskTypeName) ==
  IF MapHas(taskTypes, taskTypeName) THEN taskTypes[taskTypeName] ELSE NoType

hasTaskType(taskTypeName) == MapHas(taskTypes, taskTypeName)

registerTaskTypeConfigCheck_always(types, taskTypeName) == TRUE

registerTaskTypeConfigCheck(types, taskTypeName) == MapHas(types, taskTypeName)

registerTaskTypeConfig(taskTypeName, config) ==
  /\ IF registerTaskTypeConfigCheck(taskTypes, taskTypeName)
     THEN /\ taskTypeConfigs' = MapSet(taskTypeConfigs, taskTypeName, config)
          /\ regLast' = RegStep("registerTaskTypeConfig", taskTypeName, NoType, config,
                                "returned", "none",
                                FoundConfig(taskTypeConfigs, taskTypeName))
     ELSE /\ regLast' = RegStep("registerTaskTypeConfig", taskTypeName, NoType, config,
                                "threw", "NotRegistered",
                                FoundConfig(taskTypeConfigs, taskTypeName))
          /\ UNCHANGED taskTypeConfigs
  /\ UNCHANGED <<taskTypes, regOthers>>

getTaskTypeConfig(taskTypeName) ==
  IF MapHas(taskTypeConfigs, taskTypeName) THEN taskTypeConfigs[taskTypeName] ELSE "undefined"

registryClear ==
  /\ taskTypes' = EmptyMap
  /\ taskTypeConfigs' = EmptyMap
  /\ regLast' = RegStep("clear", "none", NoType, "none", "returned", "none", "none")
  /\ UNCHANGED <<regOthers>>

registrySize == Cardinality(DOMAIN taskTypes)

NextRegistry ==
  \/ \E taskType \in TaskTypes : register(taskType)
  \/ \E taskTypeName \in TypeNames : unregister(taskTypeName)
  \/ \E taskTypeName \in TypeNames, config \in Configs :
        registerTaskTypeConfig(taskTypeName, config)
  \/ registryClear

SpecRegistry == Init /\ [][NextRegistry]_vars

\* ---------------------------------------------------------------- TaskServiceRegistry
\* the values JavaScript converts to false in a condition
ToBoolean(value) == value \notin {"0", "null", "undefined", "false", "NaN", ""}

\* services.get(id): undefined when the map has no entry
servicesGet(map, serviceId) == IF MapHas(map, serviceId) THEN map[serviceId] ELSE "undefined"

\* getService throws when what the map gave is not truthy
getServiceFound(map, serviceId) == ToBoolean(servicesGet(map, serviceId))

getServiceIn(map, serviceId) ==
  IF ~getServiceFound(map, serviceId)
  THEN [outcome |-> "threw", error |-> "NotFound", returned |-> "none"]
  ELSE [outcome |-> "returned", error |-> "none", returned |-> servicesGet(map, serviceId)]

getService(serviceId) ==
  /\ LET r == getServiceIn(services, serviceId)
     IN svcLast' = SvcStep("getService", serviceId, "none", r.outcome, r.error, r.returned)
  /\ UNCHANGED <<services, serviceConfigs, svcOthers>>

registerServiceCheck_never(map, serviceId) == TRUE

registerServiceCheck(map, serviceId) == ~MapHas(map, serviceId)

registerService(serviceId, service) ==
  IF ~registerServiceCheck(services, serviceId)
  THEN /\ svcLast' = SvcStep("registerService", serviceId, service, "threw",
                              "AlreadyRegistered", "none")
       /\ UNCHANGED <<services, serviceConfigs, svcOthers>>
  ELSE /\ services' = MapSet(services, serviceId, service)
       /\ svcLast' = SvcStep("registerService", serviceId, service, "returned", "none", "none")
       /\ UNCHANGED <<serviceConfigs, svcOthers>>

unregisterService(serviceId) ==
  IF ~MapHas(services, serviceId)
  THEN /\ svcLast' = SvcStep("unregisterService", serviceId, "none", "threw",
                              "NotRegistered", "none")
       /\ UNCHANGED <<services, serviceConfigs, svcOthers>>
  ELSE /\ services' = MapDelete(services, serviceId)
       /\ serviceConfigs' = MapDelete(serviceConfigs, serviceId)
       /\ svcLast' = SvcStep("unregisterService", serviceId, "none", "returned", "none",
                              "none")
       /\ UNCHANGED svcOthers

hasService(serviceId) == MapHas(services, serviceId)

getServiceIds == DOMAIN services

\* a configuration is stored whether or not the id has a service
registerServiceConfig(serviceId, config) ==
  /\ serviceConfigs' = MapSet(serviceConfigs, serviceId, config)
  /\ svcLast' = SvcStep("registerServiceConfig", serviceId, config, "returned", "none",
                        "none")
  /\ UNCHANGED <<services, svcOthers>>

getServiceConfig(serviceId) ==
  IF MapHas(serviceConfigs, serviceId) THEN serviceConfigs[serviceId] ELSE "undefined"

serviceRegistryClear ==
  /\ services' = EmptyMap
  /\ serviceConfigs' = EmptyMap
  /\ svcLast' = SvcStep("clear", "none", "none", "returned", "none", "none")
  /\ UNCHANGED svcOthers

serviceRegistrySize == Cardinality(DOMAIN services)

NextServices ==
  \/ \E serviceId \in ServiceIds : getService(serviceId)
  \/ \E serviceId \in ServiceIds, service \in ServiceInstances :
        registerService(serviceId, service)
  \/ \E serviceId \in ServiceIds : unregisterService(serviceId)
  \/ \E serviceId \in ServiceIds, config \in ServiceConfigs :
        registerServiceConfig(serviceId, config)
  \/ serviceRegistryClear

SpecServices == Init /\ [][NextServices]_vars

\* the service ids and instances a running task registers
ContextServiceIds == {"s1"}
ContextServiceInstances == {"objectA"}

\* a task whose execute is running calls registerService on context.services,
\* which is the service registry of the manager
contextRegistersService(c, serviceId, service) ==
  /\ c.op = "executeTask"
  /\ c.settled = Pending
  /\ IF ~registerServiceCheck(services, serviceId)
     THEN /\ svcLast' = SvcStep("registerService", serviceId, service, "threw",
                                 "AlreadyRegistered", "none")
          /\ last' = Step("execute", "registerService", c.id, "threw", "AlreadyRegistered",
                          "none")
          /\ UNCHANGED services
     ELSE /\ services' = MapSet(services, serviceId, service)
          /\ svcLast' = SvcStep("registerService", serviceId, service, "returned", "none",
                                 "none")
          /\ last' = Step("execute", "registerService", c.id, "returned", "none", "none")
  /\ UNCHANGED <<tasks, taskStates, activeTasks, inflight, disposedIds, serviceConfigs,
                 smVars, regVars, facVars, pmVars>>

\* the manager with tasks that register services while they run, used
\* through createTask, executeTask, cancelTask and dispose
NextWithServices ==
  \/ createTask
  \/ \E taskId \in TaskIds : executeTaskCall(taskId)
  \/ \E c \in Calls : executeSettles(c)
  \/ \E c \in Calls : executeTaskResume(c)
  \/ \E taskId \in TaskIds : cancelTaskCall(taskId)
  \/ \E c \in Calls : cancelTaskResume(c)
  \/ \E c \in Calls : taskOperationRejects(c)
  \/ dispose
  \/ \E c \in Calls, serviceId \in ContextServiceIds, service \in ContextServiceInstances :
        contextRegistersService(c, serviceId, service)

SpecWithServices == Init /\ [][NextWithServices]_vars

\* the manager used through createTask, executeTask, cancelTask and dispose
NextActive ==
  \/ createTask
  \/ \E taskId \in TaskIds : executeTaskCall(taskId)
  \/ \E c \in Calls : executeSettles(c)
  \/ \E c \in Calls : executeTaskResume(c)
  \/ \E taskId \in TaskIds : cancelTaskCall(taskId)
  \/ \E c \in Calls : cancelTaskResume(c)
  \/ \E c \in Calls : taskOperationRejects(c)
  \/ dispose

\* the executeTask calls that can be suspended
ExecuteCalls ==
  {Call("executeTask", taskId, settled) :
     taskId \in TaskIds,
     settled \in {Pending} \cup [kind : {"ok"}, value : Results]
                           \cup [kind : {"err"}, value : Errors]}

\* every execute operation that was started returns or throws, and the event
\* loop runs the continuation of an executeTask whose awaited promise settled
ExecuteTerminates ==
  \A c \in ExecuteCalls :
    /\ WF_vars(c \in Calls /\ executeSettles(c))
    /\ WF_vars(c \in Calls /\ executeTaskResume(c))

SpecActive == Init /\ [][NextActive]_vars /\ ExecuteTerminates

\* ---------------------------------------------------------------- TaskFactoryImpl
\* the cache is a Map: its entries keep the order in which keys were inserted
CacheHas(cache, key) == \E i \in 1..Len(cache) : cache[i].key = key

CacheGet(cache, key) == cache[CHOOSE i \in 1..Len(cache) : cache[i].key = key].task

CacheSet(cache, key, task) ==
  IF CacheHas(cache, key)
  THEN [i \in 1..Len(cache) |-> IF cache[i].key = key THEN [key |-> key, task |-> task]
                                                      ELSE cache[i]]
  ELSE Append(cache, [key |-> key, task |-> task])

CacheDeleteAt(cache, i) ==
  [j \in 1..(Len(cache) - 1) |-> IF j < i THEN cache[j] ELSE cache[j + 1]]

cacheKey(taskTypeName, id) == taskTypeName \o ":" \o id

\* the task a descriptor's createTask builds; serial tells instances apart
construct(taskType, id, inputs, serial) ==
  [id |-> id, type |-> taskType.name, by |-> taskType.version, inputs |-> inputs,
   serial |-> serial]

createTaskTypeMissing_cacheFirst(types, cache, taskTypeName, id) ==
  ~MapHas(types, taskTypeName) /\ ~CacheHas(cache, cacheKey(taskTypeName, id))

createTaskTypeMissing(types, cache, taskTypeName, id) == ~MapHas(types, taskTypeName)

createTaskCached_never(cache, key) == FALSE

createTaskCached(cache, key) == CacheHas(cache, key)

\* createTask on a registry content, a cache and a count of constructor calls
createTaskIn(types, cache, ctor, taskTypeName, id, inputs) ==
  LET key == cacheKey(taskTypeName, id)
  IN IF createTaskTypeMissing(types, cache, taskTypeName, id)
     THEN [outcome |-> "threw", path |-> "typeMissing", task |-> NoTask, cache |-> cache,
           ctor |-> ctor, constructed |-> 0]
     ELSE IF createTaskCached(cache, key)
          THEN [outcome |-> "returned", path |-> "cached", task |-> CacheGet(cache, key),
                cache |-> cache, ctor |-> ctor, constructed |-> 0]
          ELSE LET task == construct(types[taskTypeName], id, inputs, ctor + 1)
               IN [outcome |-> "returned", path |-> "constructed", task |-> task,
                   cache |-> CacheSet(cache, key, task), ctor |-> ctor + 1,
                   constructed |-> 1]

Returned(r) == IF r.outcome = "returned" THEN <<r.task>> ELSE << >>

factoryCreateTask(taskTypeName, id, inputs) ==
  LET r == createTaskIn(taskTypes, taskCache, ctorCalls, taskTypeName, id, inputs)
  IN /\ r.ctor <= MaxCtor
     /\ taskCache' = r.cache
     /\ ctorCalls' = r.ctor
     /\ facLast' = FacStep("createTask", taskTypeName, id, inputs, 0, r, Returned(r), NoTask)
     /\ UNCHANGED <<generators, genHistory, lazy, lazyPrev, facOthers>>

createTaskGenerator(g, taskTypeName, inputs) ==
  /\ ~MapHas(generators, g)
  /\ generators' = MapSet(generators, g,
                          [typeName |-> taskTypeName, inputs |-> inputs, counter |-> 0])
  /\ genHistory' = MapSet(genHistory, g, [returned |-> 0, failed |-> 0])
  /\ facLast' = FacStep("createTaskGenerator", taskTypeName, g, inputs, 0, Plain, << >>,
                        NoTask)
  /\ UNCHANGED <<taskCache, ctorCalls, lazy, lazyPrev, facOthers>>

generatorTaskId_postIncrement(taskTypeName, counter) ==
  taskTypeName \o "-" \o ToString(counter - 1)

\* the id minted with the counter value that ++counter yields
generatorTaskId(taskTypeName, counter) == taskTypeName \o "-" \o ToString(counter)

generatorNext(g) ==
  /\ MapHas(generators, g)
  /\ generators[g].counter < MaxCounter
  /\ LET gen == generators[g]
         counter == gen.counter + 1
         taskId == generatorTaskId(gen.typeName, counter)
         r == createTaskIn(taskTypes, taskCache, ctorCalls, gen.typeName, taskId, gen.inputs)
     IN /\ r.ctor <= MaxCtor
        /\ generators' = [generators EXCEPT ![g].counter = counter]
        /\ genHistory' = IF r.outcome = "returned"
                         THEN [genHistory EXCEPT ![g].returned = @ + 1]
                         ELSE [genHistory EXCEPT ![g].failed = @ + 1]
        /\ taskCache' = r.cache
        /\ ctorCalls' = r.ctor
        /\ facLast' = FacStep("next", gen.typeName, g, gen.inputs, 0, r, Returned(r), NoTask)
  /\ UNCHANGED <<lazy, lazyPrev, facOthers>>

\* Array.from({length: count}, f): f runs once per element, in order, and a
\* throw of f ends the whole call
RECURSIVE createBatchFrom(_, _, _, _, _)
createBatchFrom(st, types, taskTypeName, inputs, left) ==
  IF left = 0
  THEN st
  ELSE LET counter == st.counter + 1
           r == createTaskIn(types, st.cache, st.ctor, taskTypeName,
                             generatorTaskId(taskTypeName, counter), inputs)
       IN IF r.outcome = "threw"
          THEN [outcome |-> "threw", path |-> r.path, tasks |-> << >>, cache |-> r.cache,
                ctor |-> r.ctor, counter |-> counter, constructed |-> st.constructed]
          ELSE createBatchFrom([outcome |-> "returned", path |-> "batch",
                                tasks |-> Append(st.tasks, r.task), cache |-> r.cache,
                                ctor |-> r.ctor, counter |-> counter,
                                constructed |-> st.constructed + r.constructed],
                               types, taskTypeName, inputs, left - 1)

generatorCreateBatch(g, count) ==
  /\ MapHas(generators, g)
  /\ LET gen == generators[g]
         r == createBatchFrom([outcome |-> "returned", path |-> "batch", tasks |-> << >>,
                               cache |-> taskCache, ctor |-> ctorCalls,
                               counter |-> gen.counter, constructed |-> 0],
                              taskTypes, gen.typeName, gen.inputs, count)
     IN /\ r.counter <= MaxCounter
        /\ r.ctor <= MaxCtor
        /\ generators' = [generators EXCEPT ![g].counter = r.counter]
        /\ genHistory' = IF r.outcome = "returned"
                         THEN [genHistory EXCEPT ![g].returned = @ + Len(r.tasks)]
                         ELSE [genHistory EXCEPT ![g].failed = @ + 1]
        /\ taskCache' = r.cache
        /\ ctorCalls' = r.ctor
        /\ facLast' = FacStep("createBatch", gen.typeName, g, gen.inputs, count, r, r.tasks,
                              NoTask)
  /\ UNCHANGED <<lazy, lazyPrev, facOthers>>

clearCache ==
  /\ taskCache' = << >>
  /\ facLast' = FacStep("clearCache", "none", "none", "none", 0, Plain, << >>, NoTask)
  /\ UNCHANGED <<ctorCalls, generators, genHistory, lazy, lazyPrev, facOthers>>

\* the loop deletes the first entry whose task carries the id, then breaks
removeFromCache(taskId) ==
  /\ LET hits == {i \in 1..Len(taskCache) : taskCache[i].task.id = taskId}
     IN taskCache' = IF hits = {}
                     THEN taskCache
                     ELSE CacheDeleteAt(taskCache,
                                        CHOOSE i \in hits : \A j \in hits : i <= j)
  /\ facLast' = FacStep("removeFromCache", "none", taskId, "none", 0, Plain, << >>, NoTask)
  /\ UNCHANGED <<ctorCalls, generators, genHistory, lazy, lazyPrev, facOthers>>

getCachedTasks == [i \in 1..Len(taskCache) |-> taskCache[i].task]

createLazyTask(taskTypeName, id, inputs) ==
  /\ lazy = NoLazy
  /\ lazy' = [typeName |-> taskTypeName, id |-> id, inputs |-> inputs, task |-> NoTask]
  /\ lazyPrev' = NoTask
  /\ facLast' = FacStep("createLazyTask", taskTypeName, id, inputs, 0, Plain, << >>, NoTask)
  /\ UNCHANGED <<taskCache, ctorCalls, generators, genHistory, facOthers>>

lazyGet ==
  /\ lazy # NoLazy
  /\ IF lazy.task = NoTask
     THEN LET r == createTaskIn(taskTypes, taskCache, ctorCalls, lazy.typeName, lazy.id,
                                lazy.inputs)
          IN /\ r.ctor <= MaxCtor
             /\ taskCache' = r.cache
             /\ ctorCalls' = r.ctor
             /\ lazy' = [lazy EXCEPT !.task = r.task]
             /\ lazyPrev' = IF r.outcome = "returned" THEN r.task ELSE lazyPrev
             /\ facLast' = FacStep("lazy.get", lazy.typeName, lazy.id, lazy.inputs, 0, r,
                                   Returned(r), lazyPrev)
     ELSE /\ facLast' = FacStep("lazy.get", lazy.typeName, lazy.id, lazy.inputs, 0,
                                [outcome |-> "returned", path |-> "memo", constructed |-> 0],
                                <<lazy.task>>, lazyPrev)
          /\ lazyPrev' = lazy.task
          /\ UNCHANGED <<taskCache, ctorCalls, lazy>>
  /\ UNCHANGED <<generators, genHistory, facOthers>>

lazyIsInitialized == lazy.task # NoTask

lazyResetTask_kept(task) == task

lazyResetTask(task) == NoTask

lazyReset ==
  /\ lazy # NoLazy
  /\ lazy' = [lazy EXCEPT !.task = lazyResetTask(lazy.task)]
  /\ facLast' = FacStep("lazy.reset", lazy.typeName, lazy.id, lazy.inputs, 0, Plain, << >>,
                        NoTask)
  /\ UNCHANGED <<taskCache, ctorCalls, generators, genHistory, lazyPrev, facOthers>>

\* a factory used through createTask and its cache operations
NextFactory ==
  \/ \E taskType \in TaskTypesV1 : register(taskType)
  \/ \E taskTypeName \in TypeNames : unregister(taskTypeName)
  \/ \E taskTypeName \in TypeNames, id \in FactoryIds, inputs \in Inputs :
        factoryCreateTask(taskTypeName, id, inputs)
  \/ clearCache
  \/ \E taskId \in FactoryIds : removeFromCache(taskId)

SpecFactory == Init /\ [][NextFactory]_vars

\* a factory whose registry sees descriptors come and go under one name
VersionedTypeNames == {"A"}

NextFactoryVersions ==
  \/ \E taskType \in {t \in TaskTypes : t.name \in VersionedTypeNames} : register(taskType)
  \/ \E taskTypeName \in VersionedTypeNames : unregister(taskTypeName)
  \/ \E taskTypeName \in VersionedTypeNames, id \in FactoryIds, inputs \in Inputs :
        factoryCreateTask(taskTypeName, id, inputs)
  \/ clearCache
  \/ \E taskId \in FactoryIds : removeFromCache(taskId)

SpecFactoryVersions == Init /\ [][NextFactoryVersions]_vars

\* a factory used through its generators, which are all made for one type
NextGenerator ==
  \/ \E taskType \in {t \in TaskTypesV1 : t.name \in GeneratorTypeNames} : register(taskType)
  \/ \E taskTypeName \in GeneratorTypeNames : unregister(taskTypeName)
  \/ \E g \in Generators, taskTypeName \in GeneratorTypeNames, inputs \in GeneratorInputs :
        createTaskGenerator(g, taskTypeName, inputs)
  \/ \E g \in Generators : generatorNext(g)
  \/ \E g \in Generators, count \in 0..MaxCounter : generatorCreateBatch(g, count)

SpecGenerator == Init /\ [][NextGenerator]_vars

\* a factory used through a lazy handle, next to the cache operations
NextLazy ==
  \/ \E taskType \in TaskTypesV1 : register(taskType)
  \/ \E taskTypeName \in TypeNames : unregister(taskTypeName)
  \/ \E taskTypeName \in TypeNames, id \in LazyIds, inputs \in LazyInputs :
        createLazyTask(taskTypeName, id, inputs)
  \/ lazyGet
  \/ lazyReset
  \/ clearCache
  \/ \E taskId \in LazyIds : removeFromCache(taskId)
  \/ \E taskTypeName \in TypeNames, id \in LazyIds, inputs \in LazyInputs :
        factoryCreateTask(taskTypeName, id, inputs)

SpecLazy == Init /\ [][NextLazy]_vars

\* ---------------------------------------------------------------- PluginManagerImpl
PmCalls == BagToSet(pmInflight)

PmCall(op, arg, stage, plugin) ==
  [op |-> op, arg |-> arg, stage |-> stage, plugin |-> plugin, caller |-> NoCaller]

PmSuspend(c) == pmInflight (+) SetToBag({c})

PmFinish(c) == pmInflight (-) SetToBag({c})

\* the keys of a Map after set and after delete
OrderSet(order, key) ==
  IF \E i \in 1..Len(order) : order[i] = key THEN order ELSE Append(order, key)

OrderDelete(order, key) == SelectSeq(order, LAMBDA k : k # key)

SeqRange(seq) == {seq[i] : i \in 1..Len(seq)}

isValidPlugin(obj) == obj # NoPlugin /\ PluginMembers \subseteq obj.members

\* how the reloadPlugin or clear call that awaits call c goes on once c ended
\* with outcome and error, the loaded plugins being before at that moment and
\* after when c had ended: the calls it makes next, the caller record then,
\* and the caller's own outcome
Continue(c, outcome, error, before, after) ==
  LET k == c.caller
      Ends(caller, o, e) == [calls |-> {}, caller |-> caller, outcome |-> o, error |-> e]
  IN CASE k.op = "none" -> Ends(NoCaller, "none", "none")
       [] k.op = "reloadPlugin" ->
            IF outcome = "threw"
            THEN Ends(k, "threw", error)
            ELSE IF c.op = "unloadPlugin"
                 THEN LET k2 == [k EXCEPT !.done = Append(@, c.arg)]
                      IN [calls |-> {[PmCall("loadPlugin", k.arg, "import", NoPlugin)
                                        EXCEPT !.caller = k2]},
                          caller |-> k2, outcome |-> "pending", error |-> "none"]
                 ELSE Ends(k, "returned", "none")
       [] k.op = "clear" ->
            LET seen == [k EXCEPT !.undisturbed =
                                    @ /\ DOMAIN before = {c.arg} \cup SeqRange(k.rest)]
            IN IF outcome = "threw"
               THEN Ends(seen, "threw", error)
               ELSE LET k2 == [seen EXCEPT !.done = Append(@, c.arg)]
                    IN IF k2.rest = << >>
                       THEN Ends(k2, "returned", "none")
                       ELSE LET pluginName == Head(k2.rest)
                                k3 == [k2 EXCEPT !.rest = Tail(@)]
                            IN IF ~MapHas(after, pluginName)
                               THEN Ends(k3, "threw", "NotLoaded")
                               ELSE [calls |-> {[PmCall("unloadPlugin", pluginName,
                                                        "destroy", after[pluginName])
                                                   EXCEPT !.caller = k3]},
                                     caller |-> k3, outcome |-> "pending",
                                     error |-> "none"]

\* the record of a step that ended call c, with what it meant for the caller
Ended(step, k) ==
  [step EXCEPT !.caller = k.caller, !.callerOutcome = k.outcome, !.callerError = k.error]

\* loadPlugin up to its first await, the dynamic import
loadPluginCall(pluginPath) ==
  /\ BagCardinality(pmInflight) < MaxPluginCalls
  /\ pmInflight' = PmSuspend(PmCall("loadPlugin", pluginPath, "import", NoPlugin))
  /\ pmLast' = PmStep("loadPlugin", "call", pluginPath, NoPlugin, "pending", "none",
                      "import", {})
  /\ UNCHANGED <<plugins, pluginConfigs, pluginOrder, regVars, pmOthers>>

\* the test that the plugin's name is not loaded
loadPluginCheck(loaded, plugin) == ~MapHas(loaded, plugin.name)

\* loadPlugin from the settled import to its second await, plugin.initialize
loadPluginImported(c) ==
  /\ c.op = "loadPlugin"
  /\ c.stage = "import"
  /\ LET module == PluginModules(c.arg)
         plugin == module.plugin
         Throw(error) ==
           LET k == Continue(c, "threw", error, plugins, plugins)
           IN /\ pmInflight' = PmFinish(c) (+) SetToBag(k.calls)
              /\ pmLast' = Ended(PmStep("loadPlugin", "imported", c.arg, plugin, "threw",
                                        error, "none", {}), k)
     IN IF ~module.resolves
        THEN Throw("ImportFailed")
        ELSE IF ~isValidPlugin(plugin)
             THEN Throw("InvalidStructure")
             ELSE IF ~loadPluginCheck(plugins, plugin)
                  THEN Throw("AlreadyLoaded")
                  ELSE /\ pmInflight' = PmFinish(c) (+)
                                        SetToBag({[c EXCEPT !.stage = "initialize",
                                                            !.plugin = plugin]})
                       /\ pmLast' = [PmStep("loadPlugin", "imported", c.arg, plugin,
                                            "pending", "none", "initialize", {})
                                       EXCEPT !.caller = c.caller,
                                              !.callerOutcome =
                                                IF c.caller = NoCaller THEN "none"
                                                ELSE "pending"]
  /\ UNCHANGED <<plugins, pluginConfigs, pluginOrder, regVars, pmOthers>>

\* the loop over plugin.getTaskTypes() that calls registry.register: the
\* first register that throws ends it and nothing is taken back
RECURSIVE registerAll(_, _)
registerAll(st, types) ==
  IF types = << >>
  THEN st
  ELSE LET taskType == Head(types)
           found == FoundConfig(st.configs, taskType.name)
       IN IF registerCheck(st.types, taskType)
          THEN registerAll([st EXCEPT !.types = registerStore(st.types, taskType),
                                      !.touched = @ \cup {taskType.name},
                                      !.last = RegStep("register", taskType.name, taskType,
                                                       "none", "returned", "none", found)],
                           Tail(types))
          ELSE [st EXCEPT !.outcome = "threw",
                          !.last = RegStep("register", taskType.name, taskType, "none",
                                           "threw", "AlreadyRegistered", found)]

\* loadPlugin after plugin.initialize settled, to its end
loadPluginInitialized(c, resolved) ==
  /\ c.op = "loadPlugin"
  /\ c.stage = "initialize"
  /\ IF ~resolved
     THEN LET k == Continue(c, "threw", "InitializeFailed", plugins, plugins)
          IN /\ pmInflight' = PmFinish(c) (+) SetToBag(k.calls)
             /\ pmLast' = Ended(PmStep("loadPlugin", "resume", c.arg, c.plugin, "threw",
                                       "InitializeFailed", "none", {}), k)
             /\ UNCHANGED <<plugins, pluginOrder, regVars>>
     ELSE LET r == registerAll([types |-> taskTypes, configs |-> taskTypeConfigs,
                                outcome |-> "returned", touched |-> {}, last |-> regLast],
                               c.plugin.types)
              error == IF r.outcome = "threw" THEN "AlreadyRegistered" ELSE "none"
              after == IF r.outcome = "returned"
                       THEN MapSet(plugins, c.plugin.name, c.plugin)
                       ELSE plugins
              k == Continue(c, r.outcome, error, plugins, after)
          IN /\ taskTypes' = r.types
             /\ regLast' = r.last
             /\ plugins' = after
             /\ pluginOrder' = IF r.outcome = "returned"
                               THEN OrderSet(pluginOrder, c.plugin.name)
                               ELSE pluginOrder
             /\ pmInflight' = PmFinish(c) (+) SetToBag(k.calls)
             /\ pmLast' = Ended(PmStep("loadPlugin", "resume", c.arg, c.plugin, r.outcome,
                                       error, "none", r.touched), k)
             /\ UNCHANGED taskTypeConfigs
  /\ UNCHANGED <<pluginConfigs, pmOthers>>

\* unloadPlugin up to its await, plugin.destroy
unloadPluginCall(pluginName) ==
  /\ IF ~MapHas(plugins, pluginName)
     THEN /\ pmLast' = PmStep("unloadPlugin", "call", pluginName, NoPlugin, "threw",
                              "NotLoaded", "none", {})
          /\ UNCHANGED pmInflight
     ELSE /\ BagCardinality(pmInflight) < MaxPluginCalls
          /\ pmInflight' = PmSuspend(PmCall("unloadPlugin", pluginName, "destroy",
                                            plugins[pluginName]))
          /\ pmLast' = PmStep("unloadPlugin", "call", pluginName, plugins[pluginName],
                              "pending", "none", "destroy", {})
  /\ UNCHANGED <<plugins, pluginConfigs, pluginOrder, regVars, pmOthers>>

unloadUnregisterGuard_none(types, taskTypeName) == TRUE

\* the test that guards registry.unregister in the loop of unloadPlugin
unloadUnregisterGuard(types, taskTypeName) == MapHas(types, taskTypeName)

\* the loop over plugin.getTaskTypes() that calls registry.unregister
RECURSIVE unregisterAll(_, _)
unregisterAll(st, types) ==
  IF types = << >>
  THEN st
  ELSE LET taskTypeName == Head(types).name
           found == FoundConfig(st.configs, taskTypeName)
       IN IF ~unloadUnregisterGuard(st.types, taskTypeName)
          THEN unregisterAll(st, Tail(types))
          ELSE IF unregisterCheck(st.types, taskTypeName)
               THEN unregisterAll([st EXCEPT
                                     !.types = unregisterTypes(st.types, taskTypeName),
                                     !.configs = unregisterConfigs(st.configs, taskTypeName),
                                     !.touched = @ \cup {taskTypeName},
                                     !.last = RegStep("unregister", taskTypeName, NoType,
                                                      "none", "returned", "none", found)],
                                  Tail(types))
               ELSE [st EXCEPT !.outcome = "threw",
                               !.last = RegStep("unregister", taskTypeName, NoType, "none",
                                                "threw", "NotRegistered", found)]

\* unloadPlugin after plugin.destroy settled, to its end
unloadPluginDestroyed(c, resolved) ==
  /\ c.op = "unloadPlugin"
  /\ c.stage = "destroy"
  /\ IF ~resolved
     THEN LET k == Continue(c, "threw", "DestroyFailed", plugins, plugins)
          IN /\ pmInflight' = PmFinish(c) (+) SetToBag(k.calls)
             /\ pmLast' = Ended(PmStep("unloadPlugin", "resume", c.arg, c.plugin, "threw",
                                       "DestroyFailed", "none", {}), k)
             /\ UNCHANGED <<plugins, pluginConfigs, pluginOrder, regVars>>
     ELSE LET r == unregisterAll([types |-> taskTypes, configs |-> taskTypeConfigs,
                                  outcome |-> "returned", touched |-> {}, last |-> regLast],
                                 c.plugin.types)
              error == IF r.outcome = "threw" THEN "NotRegistered" ELSE "none"
              after == IF r.outcome = "returned" THEN MapDelete(plugins, c.arg) ELSE plugins
              k == Continue(c, r.outcome, error, plugins, after)
          IN /\ taskTypes' = r.types
             /\ taskTypeConfigs' = r.configs
             /\ regLast' = r.last
             /\ plugins' = after
             /\ IF r.outcome = "returned"
                THEN /\ pluginOrder' = OrderDelete(pluginOrder, c.arg)
                     /\ pluginConfigs' = MapDelete(pluginConfigs, c.arg)
                ELSE UNCHANGED <<pluginOrder, pluginConfigs>>
             /\ pmInflight' = PmFinish(c) (+) SetToBag(k.calls)
             /\ pmLast' = Ended(PmStep("unloadPlugin", "resume", c.arg, c.plugin, r.outcome,
                                       error, "none", r.touched), k)
  /\ UNCHANGED pmOthers

\* the name reloadPlugin takes for the plugin: the last segment of the path
\* without its extension, or unknown when that is empty
reloadPluginName(pluginPath) ==
  LET segments == PathSegments(pluginPath)
      stem == StripExtension(segments[Len(segments)])
  IN IF stem = "" THEN "unknown" ELSE stem

\* reloadPlugin up to its first await: the destroy of unloadPlugin when the
\* name it derived is loaded, the import of loadPlugin otherwise
reloadPluginCall(pluginPath) ==
  /\ BagCardinality(pmInflight) < MaxPluginCalls
  /\ LET pluginName == reloadPluginName(pluginPath)
         k == Caller("reloadPlugin", pluginPath, << >>)
     IN IF MapHas(plugins, pluginName)
        THEN /\ pmInflight' = PmSuspend([PmCall("unloadPlugin", pluginName, "destroy",
                                                plugins[pluginName])
                                           EXCEPT !.caller = k])
             /\ pmLast' = [PmStep("reloadPlugin", "call", pluginPath, plugins[pluginName],
                                  "pending", "none", "destroy", {})
                             EXCEPT !.caller = k, !.callerOutcome = "pending"]
        ELSE /\ pmInflight' = PmSuspend([PmCall("loadPlugin", pluginPath, "import",
                                                NoPlugin)
                                           EXCEPT !.caller = k])
             /\ pmLast' = [PmStep("reloadPlugin", "call", pluginPath, NoPlugin,
                                  "pending", "none", "import", {})
                             EXCEPT !.caller = k, !.callerOutcome = "pending"]
  /\ UNCHANGED <<plugins, pluginConfigs, pluginOrder, regVars, pmOthers>>

\* Array.from(this.plugins.keys())
getLoadedPlugins == pluginOrder

getPlugin(pluginName) == IF MapHas(plugins, pluginName) THEN plugins[pluginName] ELSE NoPlugin

\* the part of its array clear goes through after the first name
clearRest_none(pluginNames) == << >>

clearRest(pluginNames) == Tail(pluginNames)

\* clear up to its first await: it takes the array of loaded names and calls
\* unloadPlugin for the first, or returns when there is none
clearCall ==
  /\ LET pluginNames == getLoadedPlugins
     IN IF pluginNames = << >>
        THEN /\ pmLast' = [PmStep("clear", "call", "none", NoPlugin, "returned", "none",
                                  "none", {})
                             EXCEPT !.caller = Caller("clear", "none", pluginNames),
                                    !.callerOutcome = "returned"]
             /\ UNCHANGED pmInflight
        ELSE LET pluginName == Head(pluginNames)
                 k == [Caller("clear", "none", pluginNames)
                         EXCEPT !.rest = clearRest(pluginNames)]
             IN /\ BagCardinality(pmInflight) < MaxPluginCalls
                /\ pmInflight' = PmSuspend([PmCall("unloadPlugin", pluginName, "destroy",
                                                   plugins[pluginName])
                                              EXCEPT !.caller = k])
                /\ pmLast' = [PmStep("clear", "call", "none", plugins[pluginName],
                                     "pending", "none", "destroy", {})
                                EXCEPT !.caller = k, !.callerOutcome = "pending"]
  /\ UNCHANGED <<plugins, pluginConfigs, pluginOrder, regVars, pmOthers>>

pluginManagerSize == Cardinality(DOMAIN plugins)

registerPluginConfig(pluginName, config) ==
  /\ pluginConfigs' = MapSet(pluginConfigs, pluginName, config)
  /\ pmLast' = PmStep("registerPluginConfig", "call", pluginName, NoPlugin, "returned",
                      "none", "none", {})
  /\ UNCHANGED <<plugins, pluginOrder, pmInflight, regVars, pmOthers>>

getPluginConfig(pluginName) ==
  IF MapHas(pluginConfigs, pluginName) THEN pluginConfigs[pluginName] ELSE "undefined"

\* a plugin manager and its registry, where other callers unregister types
NextPlugins ==
  \/ \E pluginPath \in PluginPaths : loadPluginCall(pluginPath)
  \/ \E c \in PmCalls : loadPluginImported(c)
  \/ \E c \in PmCalls, resolved \in BOOLEAN : loadPluginInitialized(c, resolved)
  \/ \E pluginName \in PluginNames : unloadPluginCall(pluginName)
  \/ \E c \in PmCalls, resolved \in BOOLEAN : unloadPluginDestroyed(c, resolved)
  \/ \E pluginName \in ConfiguredPlugins, config \in PluginConfigs :
        registerPluginConfig(pluginName, config)
  \/ \E taskTypeName \in TypeNames : unregister(taskTypeName)

SpecPlugins == Init /\ [][NextPlugins]_vars

\* a plugin manager whose plugins are loaded and reloaded
NextReload ==
  \/ \E pluginPath \in DisjointPaths : loadPluginCall(pluginPath)
  \/ \E c \in PmCalls : loadPluginImported(c)
  \/ \E c \in PmCalls, resolved \in BOOLEAN : loadPluginInitialized(c, resolved)
  \/ \E c \in PmCalls, resolved \in BOOLEAN : unloadPluginDestroyed(c, resolved)
  \/ \E pluginPath \in DisjointPaths : reloadPluginCall(pluginPath)

SpecReload == Init /\ [][NextReload]_vars

\* a plugin manager whose plugins are loaded, unloaded and cleared
NextClear ==
  \/ \E pluginPath \in DisjointPaths : loadPluginCall(pluginPath)
  \/ \E c \in PmCalls : loadPluginImported(c)
  \/ \E c \in PmCalls, resolved \in BOOLEAN : loadPluginInitialized(c, resolved)
  \/ \E pluginName \in PluginNames : unloadPluginCall(pluginName)
  \/ \E c \in PmCalls, resolved \in BOOLEAN : unloadPluginDestroyed(c, resolved)
  \/ clearCall

SpecClear == Init /\ [][NextClear]_vars

\* a plugin manager on a registry that another party registers types with
SharedPaths == {"/p/alpha.js"}
SharedNames == {"alpha"}
SharedTypes == {t \in TaskTypesV1 : t.name = "A"}

NextShared ==
  \/ \E pluginPath \in SharedPaths : loadPluginCall(pluginPath)
  \/ \E c \in PmCalls : loadPluginImported(c)
  \/ \E c \in PmCalls, resolved \in BOOLEAN : loadPluginInitialized(c, resolved)
  \/ \E pluginName \in SharedNames : unloadPluginCall(pluginName)
  \/ \E c \in PmCalls, resolved \in BOOLEAN : unloadPluginDestroyed(c, resolved)
  \/ \E taskType \in SharedTypes : register(taskType)
  \/ \E taskTypeName \in {t.name : t \in SharedTypes} : unregister(taskTypeName)

SpecShared == Init /\ [][NextShared]_vars

\* ================================================================ claims

\* the ids with an accepted executeTask call that has not finished: its
\* execute operation has not yet returned or thrown to executeTask
ExecutingIds == {c.id : c \in {d \in Calls : d.op = "executeTask"}}

\* getTaskStatus(id) in the state a step leads to
StatusAfter(id) == IF MapHas(taskStates', id) THEN taskStates'[id] ELSE "undefined"

\* C1: every status change the manager commits, except createTask's first
\* assignment, is an edge of the state machine's transition graph.
C1_EveryStatusChangeIsAnEdge ==
  [][\A id \in TaskIds :
       (/\ MapHas(taskStates, id)
        /\ MapHas(taskStates', id)
        /\ taskStates'[id] # taskStates[id]
        /\ last'.op # "createTask")
       => canTransition(taskStates[id], taskStates'[id])]_vars

\* C2: in every reachable state the active set is exactly the set of ids with
\* an accepted executeTask whose execute operation has not returned or thrown.
C2_ActiveIsExactlyExecuting == getActiveTasks = ExecutingIds

\* C3: once dispose() has run, every id known at that dispose keeps an
\* undefined status and stays out of the active set in every later state
\* (ids handed out again by a later createTask are left out of the statement).
C3_DisposedStayUnknown ==
  \A id \in disposedIds :
    getTaskStatus(id) = "undefined" /\ id \notin getActiveTasks

\* C4: when the awaited execute resolved with a result, executeTask returns
\* that result with the status completed; when it rejected with an error,
\* executeTask rethrows that error with the status failed.
C4_ExecuteOutcomeAndStatus ==
  [][(last'.op = "executeTask" /\ last'.step = "resume") =>
       \E c \in Calls :
         /\ c.op = "executeTask"
         /\ c.id = last'.id
         /\ c.settled.kind \in {"ok", "err"}
         /\ inflight' = inflight (-) SetToBag({c})
         /\ c.settled.kind = "ok" =>
              /\ last'.outcome = "returned"
              /\ last'.value = c.settled.value
              /\ StatusAfter(c.id) = COMPLETED
         /\ c.settled.kind = "err" =>
              /\ last'.outcome = "threw"
              /\ last'.value = c.settled.value
              /\ StatusAfter(c.id) = FAILED]_vars

C4_Witness ==
  /\ last.op = "executeTask"
  /\ last.step = "resume"
  /\ last.outcome = "threw"
  /\ last.value \in Errors
  /\ getTaskStatus(last.id) = FAILED

\* C5: executeTask on an unknown id fails with not-found, and on a known id
\* whose status is neither created nor queued fails with not-executable; in
\* both cases execute is not invoked and the status map, the active set and
\* the suspended calls are left as they were.
C5_ExecuteRejects ==
  [][(last'.op = "executeTask" /\ last'.step = "call") =>
       /\ ~MapHas(tasks, last'.id) =>
            /\ last'.outcome = "threw"
            /\ last'.value = "NotFound"
            /\ last'.invoked = "none"
            /\ UNCHANGED <<tasks, taskStates, activeTasks, inflight>>
       /\ (MapHas(tasks, last'.id) /\ getTaskStatus(last'.id) \notin {CREATED, QUEUED}) =>
            /\ last'.outcome = "threw"
            /\ last'.value = "NotExecutable"
            /\ last'.invoked = "none"
            /\ UNCHANGED <<tasks, taskStates, activeTasks, inflight>>]_vars

C5_Witness ==
  /\ last.op = "executeTask"
  /\ last.step = "call"
  /\ last.outcome = "threw"
  /\ last.value = "NotExecutable"
  /\ getTaskStatus(last.id) = PAUSED
  /\ last.id \in getActiveTasks

\* C6: cancelTask on an unknown id fails with not-found and changes nothing;
\* whenever cancelTask returns, the status of its id is cancelled and the id is
\* not in the active set.
C6_CancelPostcondition ==
  [][/\ (last'.op = "cancelTask" /\ last'.step = "call" /\ ~MapHas(tasks, last'.id)) =>
          /\ last'.outcome = "threw"
          /\ last'.value = "NotFound"
          /\ last'.invoked = "none"
          /\ UNCHANGED <<tasks, taskStates, activeTasks, inflight>>
     /\ (last'.op = "cancelTask" /\ last'.step = "call" /\ MapHas(tasks, last'.id)) =>
          /\ last'.outcome = "pending"
          /\ last'.invoked = "cancel"
     /\ (last'.op = "cancelTask" /\ last'.outcome = "returned") =>
          /\ StatusAfter(last'.id) = CANCELLED
          /\ last'.id \notin getActiveTasks']_vars

\* cancelTask returned for a task whose execution is still in flight
C6_Witness ==
  /\ last.op = "cancelTask"
  /\ last.outcome = "returned"
  /\ getTaskStatus(last.id) = CANCELLED
  /\ last.id \in ExecutingIds
  /\ last.id \notin getActiveTasks

\* C7: pauseTask on a known task fails, writing nothing and not invoking
\* pause, unless the recorded status is running; accepted, it invokes pause
\* and, when it returns, the status is paused.  resumeTask likewise with
\* paused and running.  An unknown id is rejected in both.
C7_PauseResumeGuarded ==
  [][/\ (last'.op = "pauseTask" /\ last'.step = "call") =>
          /\ ~MapHas(tasks, last'.id) =>
               /\ last'.outcome = "threw"
               /\ last'.value = "NotFound"
               /\ last'.invoked = "none"
               /\ UNCHANGED <<tasks, taskStates, activeTasks, inflight>>
          /\ (MapHas(tasks, last'.id) /\ getTaskStatus(last'.id) # RUNNING) =>
               /\ last'.outcome = "threw"
               /\ last'.value = "NotRunning"
               /\ last'.invoked = "none"
               /\ UNCHANGED <<tasks, taskStates, activeTasks, inflight>>
          /\ (MapHas(tasks, last'.id) /\ getTaskStatus(last'.id) = RUNNING) =>
               /\ last'.outcome = "pending"
               /\ last'.invoked = "pause"
               /\ UNCHANGED <<tasks, taskStates, activeTasks>>
     /\ (last'.op = "pauseTask" /\ last'.outcome = "returned") =>
          StatusAfter(last'.id) = PAUSED
     /\ (last'.op = "resumeTask" /\ last'.step = "call") =>
          /\ (~MapHas(tasks, last'.id) \/ getTaskStatus(last'.id) # PAUSED) =>
               /\ last'.outcome = "threw"
               /\ last'.value = "NotPaused"
               /\ last'.invoked = "none"
               /\ UNCHANGED <<tasks, taskStates, activeTasks, inflight>>
          /\ (MapHas(tasks, last'.id) /\ getTaskStatus(last'.id) = PAUSED) =>
               /\ last'.outcome = "pending"
               /\ last'.invoked = "resume"
               /\ UNCHANGED <<tasks, taskStates, activeTasks>>
     /\ (last'.op = "resumeTask" /\ last'.outcome = "returned") =>
          StatusAfter(last'.id) = RUNNING]_vars

\* pauseTask returned while the execution of its task is still in flight
C7_Witness ==
  /\ last.op = "pauseTask"
  /\ last.outcome = "returned"
  /\ getTaskStatus(last.id) = PAUSED
  /\ last.id \in ExecutingIds
  /\ last.id \in getActiveTasks

\* C8: createTask returns an id that no task of the manager carries yet (it
\* never overwrites or resets an existing task), and the status of the
\* returned id is created right after the call.
C8_CreateTaskIdIsFresh ==
  [][last'.op = "createTask" =>
       /\ ~MapHas(tasks, last'.id)
       /\ StatusAfter(last'.id) = CREATED]_vars

\* the canonical transition table of the specification
CanonicalEdges ==
  {<<CREATED, QUEUED>>, <<CREATED, RUNNING>>, <<CREATED, CANCELLED>>,
   <<QUEUED, RUNNING>>, <<QUEUED, CANCELLED>>,
   <<RUNNING, COMPLETED>>, <<RUNNING, FAILED>>, <<RUNNING, CANCELLED>>, <<RUNNING, PAUSED>>,
   <<PAUSED, RUNNING>>, <<PAUSED, CANCELLED>>,
   <<FAILED, QUEUED>>,
   <<CANCELLED, QUEUED>>,
   <<RETRYING, QUEUED>>, <<RETRYING, RUNNING>>, <<RETRYING, CANCELLED>>}

\* C9: on a freshly constructed state machine canTransition(from, to) is true
\* exactly for the pairs of the canonical table; completed has no outgoing edge.
C9_FreshTableIsCanonical ==
  smOps = 0 =>
    /\ \A from \in TaskStatus, to \in TaskStatus :
         canTransition(from, to) <=> <<from, to>> \in CanonicalEdges
    /\ \A to \in TaskStatus : ~canTransition(COMPLETED, to)

\* a fresh machine rejected a transition out of completed
C9_Witness ==
  /\ smOps = 0
  /\ smLast.op = "transition"
  /\ smLast.from = COMPLETED
  /\ smLast.outcome = "threw"

\* C10: transition(task, to) rejects with an invalid-transition error naming
\* both states and leaves task.status alone when canTransition(task.status, to)
\* is false; when it is true, task.status equals to once transition resolved.
C10_TransitionCommits ==
  [][smLast'.op = "transition" =>
       IF ~canTransition(smTask.status, smLast'.to)
       THEN /\ smLast'.outcome = "threw"
            /\ smLast'.error = [kind |-> "InvalidTransition",
                                from |-> smTask.status, to |-> smLast'.to]
            /\ smTask'.status = smTask.status
       ELSE /\ smLast'.outcome = "returned"
            /\ smTask'.status = smLast'.to]_vars

\* ---------------------------------------------------------------- custom transition claims
\* the states a caller may name: the enumeration and a value outside it
StatusInputs == TaskStatus \cup {"archived"}

\* C27: addTransition(f, t) makes canTransition(f, t) true and
\* removeTransition(f, t) makes it false, also for an f without outgoing edges;
\* neither changes canTransition for another pair, and a second identical call
\* changes nothing.
C27_CustomTransitionFrame ==
  [][LET f == smLast'.from
         t == smLast'.to
         others == \A a \in StatusInputs, b \in StatusInputs :
                     <<a, b>> # <<f, t>> =>
                       (canTransitionIn(transitions', a, b) <=> canTransitionIn(transitions, a, b))
     IN /\ smLast'.op = "addTransition" =>
             /\ canTransitionIn(transitions', f, t)
             /\ others
             /\ addTransitionIn(transitions', f, t) = transitions'
        /\ smLast'.op = "removeTransition" =>
             /\ ~canTransitionIn(transitions', f, t)
             /\ others
             /\ removeTransitionIn(transitions', f, t) = transitions']_vars

\* an edge out of completed, which had no set in the table, was added
C27_Witness ==
  /\ smLast.op = "addTransition"
  /\ smLast.from = COMPLETED
  /\ smLast.to = QUEUED
  /\ canTransition(COMPLETED, QUEUED)
  /\ canTransition(RUNNING, PAUSED)

\* the edges getStateGraph lists
GraphEdges ==
  {<<s, t>> \in StatusInputs \X StatusInputs :
     s \in DOMAIN getStateGraph /\ t \in getStateGraph[s]}

\* C28: after any addTransition/removeTransition calls, t is in
\* getAllowedTransitions(s) exactly when canTransition(s, t), getStateGraph
\* lists the same edges, and a state without a set in the table has no allowed
\* transition and an empty list.
C28_QueriesAgree ==
  /\ \A s \in StatusInputs, t \in StatusInputs :
       /\ t \in getAllowedTransitions(s) <=> canTransition(s, t)
       /\ <<s, t>> \in GraphEdges <=> canTransition(s, t)
  /\ \A s \in StatusInputs :
       ~MapHas(transitions, s) =>
         /\ getAllowedTransitions(s) = {}
         /\ \A t \in StatusInputs : ~canTransition(s, t)

\* the table was edited and still has states without a set
C28_Witness ==
  /\ smLast.op \in {"addTransition", "removeTransition"}
  /\ transitions # defineTransitions
  /\ ~MapHas(transitions, COMPLETED)
  /\ ~MapHas(transitions, "archived")

\* ---------------------------------------------------------------- task life cycle claims
Executable == {CREATED, QUEUED}

\* C31: execute is invoked at most once per task: an accepted executeTask(id)
\* takes the task out of created/queued, no operation of the manager brings a
\* status back to created or queued, and an executeTask(id) issued in any
\* other status fails.
C31_ExecutedAtMostOnce ==
  [][\A id \in TaskIds :
       LET called == last'.op = "executeTask" /\ last'.step = "call" /\ last'.id = id
       IN /\ (called /\ last'.outcome = "pending") => StatusAfter(id) = RUNNING
          /\ (called /\ getTaskStatus(id) \notin Executable) => last'.outcome = "threw"
          /\ getTaskStatus(id) \notin Executable \cup {"undefined"} =>
               StatusAfter(id) \notin Executable]_vars

\* C32: a task whose recorded status is running is in the active set.
C32_RunningIsActive ==
  \A id \in TaskIds : getTaskStatus(id) = RUNNING => id \in getActiveTasks

\* C33: when createTask never reuses an id, every id in the active set has the
\* recorded status running or paused.
C33_ActiveIsRunningOrPaused ==
  \A id \in getActiveTasks : getTaskStatus(id) \in {RUNNING, PAUSED}

\* an active task was paused
C33_Witness ==
  /\ last.op = "pauseTask"
  /\ last.step = "resume"
  /\ last.id \in getActiveTasks
  /\ getTaskStatus(last.id) = PAUSED

\* C34: a status that is completed or failed does not become paused or
\* running, also when a pauseTask or resumeTask that passed its check before
\* the execution ended completes afterwards.
C34_FinishedStaysFinished ==
  [][\A id \in TaskIds :
       getTaskStatus(id) \in {COMPLETED, FAILED} => StatusAfter(id) \notin {PAUSED, RUNNING}]_vars

\* C35: once cancelTask(id) returned the status of id stays cancelled until
\* dispose(), also when the execution that was in flight ends afterwards.
C35_CancelledStaysCancelled ==
  [][\A id \in TaskIds :
       (getTaskStatus(id) = CANCELLED /\ last'.op # "dispose") =>
         StatusAfter(id) = CANCELLED]_vars

\* C36: when cancelTask(id) returned or dispose() ran while the execution of
\* the task was in flight, the cancellation token executeTask handed to that
\* execution reports isCancellationRequested = true no later than the step in
\* which that executeTask call ends.
C36_TokenReportsCancellation ==
  [][\A c \in Calls :
       (/\ c.op = "executeTask"
        /\ getTaskStatus(c.id) = CANCELLED \/ c.id \in disposedIds
        /\ last'.op = "executeTask" /\ last'.step = "resume" /\ last'.id = c.id
        /\ c \notin BagToSet(inflight')) =>
         c.context.cancellationToken.isCancellationRequested]_vars

\* C37: the ids with a recorded status are the ids with a recorded task, and
\* the active set is a subset of them, under any interleaving with dispose().
C37_MapsAgree ==
  /\ DOMAIN taskStates = getAllTasks
  /\ getActiveTasks \subseteq getAllTasks

\* C38: for every known id the status field of the task getTask(id) returns
\* equals getTaskStatus(id).
C38_TaskStatusFieldAgrees ==
  \A id \in getAllTasks : getTask(id).status = getTaskStatus(id)

\* ---------------------------------------------------------------- dispose claims
\* C23: dispose invokes cancel on every task that is active at that moment,
\* returns normally also when such a cancel fails, and leaves the task map,
\* the status map, the active set and the service registry empty; a failing
\* cancel does not keep the others from being cancelled or cleared.
C23_DisposeCancelsAndClears ==
  [][last'.op = "dispose" =>
       /\ last'.outcome = "returned"
       /\ last'.cancelled = DOMAIN activeTasks
       /\ getAllTasks' = {}
       /\ taskStates' = EmptyMap
       /\ getActiveTasks' = {}
       /\ services' = EmptyMap
       /\ serviceConfigs' = EmptyMap]_vars

\* dispose ran with two active tasks, the cancel of one of them failing, and
\* with a service registered
C23_Witness ==
  /\ last.op = "dispose"
  /\ last.cancelled = TaskIds
  /\ last.logged = {"t1"}
  /\ last.released # {}
  /\ tasks = EmptyMap
  /\ services = EmptyMap

\* the last step was an executeTask call that put a task in the active set
ExecuteIssued == last.op = "executeTask" /\ last.step = "call" /\ last.outcome = "pending"

\* C24: a task that enters the active set eventually leaves it when its
\* execute operation returns or throws; once no executeTask is issued any
\* more, the active set eventually is empty and stays empty.
C24_ActiveTasksLeave ==
  /\ \A taskId \in TaskIds : (taskId \in getActiveTasks) ~> (taskId \notin getActiveTasks)
  /\ <>[](~ExecuteIssued) => <>[](getActiveTasks = {})

\* an executeTask whose execute threw has removed its task from the active set
C24_Witness ==
  /\ last.op = "executeTask"
  /\ last.step = "resume"
  /\ last.outcome = "threw"
  /\ last.id \in getAllTasks
  /\ last.id \notin getActiveTasks

\* ---------------------------------------------------------------- TaskTypeRegistry claims

\* C14: register of a name the registry holds fails and changes nothing (the
\* descriptor held is kept, size() is the same); register of a name it does
\* not hold, such as one that was unregistered, succeeds and stores the
\* descriptor; and the descriptor a name maps to only ever changes to the one
\* handed to a register call that succeeded.
C14_RegisterKeepsNamesUnique ==
  [][ /\ (regLast'.op = "register" /\ MapHas(taskTypes, regLast'.name))
          => /\ regLast'.outcome = "threw"
             /\ taskTypes' = taskTypes
             /\ taskTypeConfigs' = taskTypeConfigs
             /\ registrySize' = registrySize
      /\ (regLast'.op = "register" /\ ~MapHas(taskTypes, regLast'.name))
          => /\ regLast'.outcome = "returned"
             /\ MapHas(taskTypes', regLast'.name)
             /\ taskTypes'[regLast'.name] = regLast'.taskType
      /\ \A n \in TypeNames :
            (MapHas(taskTypes', n) /\ (~MapHas(taskTypes, n) \/ taskTypes'[n] # taskTypes[n]))
            => /\ regLast'.op = "register"
               /\ regLast'.outcome = "returned"
               /\ regLast'.taskType = taskTypes'[n] ]_vars

\* a register was refused for a name held with another descriptor, which is kept
C14_Witness ==
  /\ regLast.op = "register"
  /\ regLast.outcome = "threw"
  /\ MapHas(taskTypes, regLast.name)
  /\ taskTypes[regLast.name] # regLast.taskType

\* C15: unregister of an absent name fails with not-registered and changes
\* nothing; unregister of a registered name removes the type and the
\* configuration attached to it; so a register that succeeds leaves the name
\* without configuration, and only registerTaskTypeConfig attaches one.
C15_UnregisterDropsConfig ==
  [][ /\ (regLast'.op = "unregister" /\ ~MapHas(taskTypes, regLast'.name))
          => /\ regLast'.outcome = "threw"
             /\ regLast'.error = "NotRegistered"
             /\ taskTypes' = taskTypes
             /\ taskTypeConfigs' = taskTypeConfigs
      /\ (regLast'.op = "unregister" /\ MapHas(taskTypes, regLast'.name))
          => /\ regLast'.outcome = "returned"
             /\ taskTypes' = MapDelete(taskTypes, regLast'.name)
             /\ taskTypeConfigs' = MapDelete(taskTypeConfigs, regLast'.name)
      /\ (regLast'.op = "register" /\ regLast'.outcome = "returned")
          => ~MapHas(taskTypeConfigs', regLast'.name)
      /\ \A n \in TypeNames :
            (MapHas(taskTypeConfigs', n) /\ ~MapHas(taskTypeConfigs, n))
            => (regLast'.op = "registerTaskTypeConfig" /\ regLast'.name = n) ]_vars

\* an unregister removed a type that had a configuration attached
C15_Witness ==
  /\ regLast.op = "unregister"
  /\ regLast.outcome = "returned"
  /\ regLast.foundConfig \in Configs
  /\ ~MapHas(taskTypes, regLast.name)
  /\ ~MapHas(taskTypeConfigs, regLast.name)

\* C16: after every call on the registry each name with an attached
\* configuration is a registered name, and registerTaskTypeConfig on a name
\* that is not registered fails and attaches nothing.
C16_ConfigsOnlyForRegistered ==
  [][ /\ DOMAIN taskTypeConfigs' \subseteq DOMAIN taskTypes'
      /\ (regLast'.op = "registerTaskTypeConfig" /\ ~MapHas(taskTypes, regLast'.name))
          => /\ regLast'.outcome = "threw"
             /\ regLast'.error = "NotRegistered"
             /\ taskTypeConfigs' = taskTypeConfigs
             /\ taskTypes' = taskTypes ]_vars

\* a configuration was refused for a name that is not registered, while
\* another name holds one
C16_Witness ==
  /\ regLast.op = "registerTaskTypeConfig"
  /\ regLast.outcome = "threw"
  /\ ~MapHas(taskTypes, regLast.name)
  /\ ~MapHas(taskTypeConfigs, regLast.name)
  /\ DOMAIN taskTypeConfigs # {}

\* ---------------------------------------------------------------- ServiceRegistry claims
\* C21: registerService fails for an id that is registered and leaves the
\* binding in place; getService and unregisterService fail for an id that is
\* not registered; none of the failed calls changes the registry.
C21_ServiceErrorsChangeNothing ==
  [][svcVars' # svcVars =>
       LET id == svcLast'.id
           untouched == services' = services /\ serviceConfigs' = serviceConfigs
       IN /\ (svcLast'.op = "registerService" /\ MapHas(services, id)) =>
               /\ svcLast'.outcome = "threw"
               /\ svcLast'.error = "AlreadyRegistered"
               /\ untouched
          /\ (svcLast'.op = "getService" /\ ~MapHas(services, id)) =>
               /\ svcLast'.outcome = "threw"
               /\ svcLast'.error = "NotFound"
               /\ untouched
          /\ (svcLast'.op = "unregisterService" /\ ~MapHas(services, id)) =>
               /\ svcLast'.outcome = "threw"
               /\ svcLast'.error = "NotRegistered"
               /\ untouched]_vars

\* a second registration under a bound id was refused, the binding kept
C21_Witness ==
  /\ svcLast.op = "registerService"
  /\ svcLast.outcome = "threw"
  /\ MapHas(services, svcLast.id)
  /\ services[svcLast.id] # svcLast.instance

\* C22: for every id and every instance value, falsy ones included, once
\* registerService(id, instance) succeeded hasService(id) is true and
\* getService(id) returns that instance until the id is unregistered or the
\* registry cleared: getService(id) succeeds exactly when hasService(id).
C22_GetServiceIffHasService ==
  \A id \in ServiceIds :
    LET r == getServiceIn(services, id)
    IN /\ hasService(id) <=> r.outcome = "returned"
       /\ hasService(id) => r.returned = services[id]

\* ---------------------------------------------------------------- TaskFactory claims

\* C17: a createTask call for a registered type whose key is in the cache
\* returns the cached instance without invoking the constructor and leaves
\* the cache as it is, whatever inputs it passes; a call whose key is not in
\* the cache invokes the constructor once and caches what it returns.
C17_CreateTaskIdempotent ==
  [][ (facVars' # facVars /\ facLast'.op = "createTask"
       /\ MapHas(taskTypes, facLast'.typeName))
      => LET key == cacheKey(facLast'.typeName, facLast'.id)
         IN IF CacheHas(taskCache, key)
            THEN /\ facLast'.outcome = "returned"
                 /\ facLast'.returned = <<CacheGet(taskCache, key)>>
                 /\ facLast'.constructed = 0
                 /\ ctorCalls' = ctorCalls
                 /\ taskCache' = taskCache
            ELSE /\ facLast'.outcome = "returned"
                 /\ facLast'.constructed = 1
                 /\ ctorCalls' = ctorCalls + 1
                 /\ facLast'.returned[1].id = facLast'.id
                 /\ facLast'.returned[1].inputs = facLast'.inputs
                 /\ CacheHas(taskCache', key)
                 /\ CacheGet(taskCache', key) = facLast'.returned[1] ]_vars

\* a createTask call with other inputs got the instance cached under its key
C17_Witness ==
  /\ facLast.op = "createTask"
  /\ facLast.outcome = "returned"
  /\ facLast.path = "cached"
  /\ facLast.constructed = 0
  /\ facLast.returned[1].inputs # facLast.inputs
  /\ facLast.returned[1] = CacheGet(taskCache, cacheKey(facLast.typeName, facLast.id))

\* C18: a createTask call for a type name that is not registered fails with
\* type-not-found, also when its key is in the cache, and leaves the cache
\* unchanged.
C18_CreateTaskNeedsRegisteredType ==
  [][ (facVars' # facVars /\ facLast'.op = "createTask"
       /\ ~MapHas(taskTypes, facLast'.typeName))
      => /\ facLast'.outcome = "threw"
         /\ facLast'.error = "TypeNotFound"
         /\ facLast'.returned = << >>
         /\ facLast'.constructed = 0
         /\ ctorCalls' = ctorCalls
         /\ taskCache' = taskCache ]_vars

\* createTask failed for an unregistered type whose key is in the cache
C18_Witness ==
  /\ facLast.op = "createTask"
  /\ facLast.outcome = "threw"
  /\ ~MapHas(taskTypes, facLast.typeName)
  /\ CacheHas(taskCache, cacheKey(facLast.typeName, facLast.id))

\* the ids of the tasks a generator call returned are T-(k+1), T-(k+2), ...
IdsFollow(step, typeName, k) ==
  \A i \in 1..Len(step.returned) :
     step.returned[i].id = typeName \o "-" \o ToString(k + i)

\* C19 as stated: the tasks a generator returns carry the ids T-1, T-2, ...
\* consecutively in call order, next() and createBatch sharing one counter
\* that starts at 1, and createBatch(n) returns n tasks in ascending order.
C19_GeneratorIdsConsecutive ==
  [][ (facVars' # facVars /\ facLast'.op \in {"next", "createBatch"}
       /\ facLast'.outcome = "returned")
      => /\ facLast'.op = "next" => Len(facLast'.returned) = 1
         /\ facLast'.op = "createBatch" => Len(facLast'.returned) = facLast'.count
         /\ IdsFollow(facLast', facLast'.typeName, genHistory[facLast'.id].returned) ]_vars

\* C19 amended: each failed call of the generator consumes one counter
\* value, so the tasks returned carry T-k with k the number of tasks returned
\* before plus the number of failed calls before plus one, ascending in call
\* order; createBatch(n) returns n tasks in ascending order.
C19_GeneratorIdsAscending ==
  [][ (facVars' # facVars /\ facLast'.op \in {"next", "createBatch"}
       /\ facLast'.outcome = "returned")
      => /\ facLast'.op = "next" => Len(facLast'.returned) = 1
         /\ facLast'.op = "createBatch" => Len(facLast'.returned) = facLast'.count
         /\ IdsFollow(facLast', facLast'.typeName,
                      genHistory[facLast'.id].returned + genHistory[facLast'.id].failed) ]_vars

\* a createBatch(2) after one failed call returned the ids T-2 and T-3
C19_Witness ==
  /\ facLast.op = "createBatch"
  /\ facLast.outcome = "returned"
  /\ facLast.count = 2
  /\ genHistory[facLast.id].failed = 1
  /\ genHistory[facLast.id].returned = 2
  /\ facLast.returned[1].id = facLast.typeName \o "-2"
  /\ facLast.returned[2].id = facLast.typeName \o "-3"

\* isInitialized() of the lazy handle: false before its first successful
\* get() and after reset(), true after a successful get()
LazyInitializedFlag ==
  /\ facLast'.op \in {"createLazyTask", "lazy.reset"} => ~lazyIsInitialized'
  /\ lazyPrev' = NoTask => ~lazyIsInitialized'
  /\ (facLast'.op = "lazy.get" /\ facLast'.outcome = "returned")
     => (lazyIsInitialized' /\ lazy'.task = facLast'.returned[1])

\* a get() of the lazy handle that follows a reset() and an earlier
\* successful get()
GetAfterReset ==
  /\ facLast'.op = "lazy.get"
  /\ facLast'.outcome = "returned"
  /\ lazy.task = NoTask
  /\ lazyPrev # NoTask

\* the cache still holds, under the key of the lazy handle, the instance the
\* previous get() returned
LazyEntryKept ==
  /\ CacheHas(taskCache, cacheKey(lazy.typeName, lazy.id))
  /\ CacheGet(taskCache, cacheKey(lazy.typeName, lazy.id)) = lazyPrev

\* C20 as stated: isInitialized() is false before the first get() and after
\* reset() and true after a successful get(), and get() after reset()
\* returns the instance the get() before the reset returned.
C20_LazyResetSameInstance ==
  [][ facVars' # facVars
      => /\ LazyInitializedFlag
         /\ GetAfterReset => facLast'.returned[1] = lazyPrev ]_vars

\* C20 amended: get() after reset() returns the instance the get() before
\* the reset returned when the cache entry of the handle's key was not
\* evicted in between.
C20_LazyResetSameInstanceIfKept ==
  [][ facVars' # facVars
      => /\ LazyInitializedFlag
         /\ (GetAfterReset /\ LazyEntryKept) => facLast'.returned[1] = lazyPrev ]_vars

\* a get() after a reset() came from the cache and is the earlier instance
C20_Witness ==
  /\ facLast.op = "lazy.get"
  /\ facLast.outcome = "returned"
  /\ facLast.path = "cached"
  /\ facLast.before # NoTask
  /\ facLast.returned[1] = facLast.before
  /\ lazyIsInitialized

\* C29: after removeFromCache(id) getCachedTasks() holds no task with that id,
\* and every cached task with another id is still cached, also when tasks of
\* several types were created under the one id.
C29_RemoveFromCacheRemovesId ==
  [][(facVars' # facVars /\ facLast'.op = "removeFromCache") =>
       LET before == getCachedTasks
           after == getCachedTasks'
       IN /\ \A i \in 1..Len(after) : after[i].id # facLast'.id
          /\ \A i \in 1..Len(before) :
               before[i].id # facLast'.id => \E j \in 1..Len(after) : after[j] = before[i]]_vars

\* C39: every task a successful createTask(T, id, inputs) returns was produced
\* by the descriptor registered under T at the time of the call, also after T
\* was unregistered and another descriptor registered under the same name.
C39_InstanceOfRegisteredDescriptor ==
  [][(/\ facVars' # facVars
      /\ facLast'.op = "createTask" /\ facLast'.outcome = "returned") =>
       facLast'.returned[1].by = taskTypes[facLast'.typeName].version]_vars

\* C30: every successful next() and every element of createBatch(n) mints a new
\* task: one constructor invocation per minted id, and each returned instance
\* was constructed by this very call (so no earlier call returned it), also
\* with several generators of one type name on the factory.
C30_GeneratorMintsNewTasks ==
  [][(facVars' # facVars /\ facLast'.op \in {"next", "createBatch"}
        /\ facLast'.outcome = "returned") =>
       /\ facLast'.constructed = Len(facLast'.returned)
       /\ \A i \in 1..Len(facLast'.returned) : facLast'.returned[i].serial > ctorCalls]_vars

\* ---------------------------------------------------------------- PluginManager claims

\* a step of the plugin manager, as opposed to a call on the registry
PluginManagerStepped == pmVars' # pmVars

\* the names of the types a plugin's getTaskTypes() reports
ReportedNames(plugin) == {plugin.types[i].name : i \in 1..Len(plugin.types)}

\* C11: a loadPlugin call that fails leaves the set of registered task
\* types and the set of loaded plugins as they were (every step of the call
\* up to the failure leaves them alone, and so does the failing step).
C11_FailedLoadChangesNothing ==
  [][ (PluginManagerStepped /\ pmLast'.op = "loadPlugin")
      => /\ pmLast'.outcome \in {"pending", "threw"}
            => (DOMAIN taskTypes' = DOMAIN taskTypes /\ DOMAIN plugins' = DOMAIN plugins) ]_vars

\* C12: unloadPlugin of a name that is not loaded fails with not-loaded and
\* changes nothing; an unloadPlugin that returns leaves the name out of
\* getLoadedPlugins(), every type name its plugin reports unregistered and
\* the plugin's configuration dropped; and once destroy resolved it returns,
\* whichever of those types are still registered.
C12_UnloadPostcondition ==
  [][ (PluginManagerStepped /\ pmLast'.op = "unloadPlugin")
      => /\ (pmLast'.step = "call" /\ ~MapHas(plugins, pmLast'.arg))
            => /\ pmLast'.outcome = "threw"
               /\ pmLast'.error = "NotLoaded"
               /\ UNCHANGED <<plugins, pluginConfigs, pmInflight, taskTypes, taskTypeConfigs>>
         /\ pmLast'.outcome = "returned"
            => /\ pmLast'.arg \notin DOMAIN plugins'
               /\ \A X \in ReportedNames(pmLast'.plugin) : ~MapHas(taskTypes', X)
               /\ ~MapHas(pluginConfigs', pmLast'.arg)
         /\ (pmLast'.step = "resume" /\ pmLast'.outcome = "threw")
            => /\ pmLast'.error = "DestroyFailed"
               /\ UNCHANGED <<plugins, pluginConfigs, taskTypes, taskTypeConfigs>> ]_vars

\* an unloadPlugin returned for a plugin with a configuration, one of whose
\* types had been unregistered before
C12_Witness ==
  /\ pmLast.op = "unloadPlugin"
  /\ pmLast.outcome = "returned"
  /\ pmLast.touched # {}
  /\ pmLast.touched # ReportedNames(pmLast.plugin)
  /\ ~MapHas(plugins, pmLast.arg)
  /\ ~MapHas(pluginConfigs, pmLast.arg)

\* C13: the plugin stored under a name carries that name, and a loadPlugin
\* call never gets past a moment at which its plugin's name is loaded: the
\* step it takes then fails, leaves the loaded instance in place, does not
\* call initialize and registers or removes no task type.
C13_OnePluginPerName ==
  [][ /\ \A n \in DOMAIN plugins' : plugins'[n].name = n
      /\ (PluginManagerStepped /\ pmLast'.op = "loadPlugin"
          /\ pmLast'.step \in {"imported", "resume"}
          /\ isValidPlugin(pmLast'.plugin)
          /\ MapHas(plugins, pmLast'.plugin.name))
         => /\ pmLast'.outcome = "threw"
            /\ pmLast'.invoked # "initialize"
            /\ plugins' = plugins
            /\ taskTypes' = taskTypes ]_vars

\* C40: unloadPlugin(P) unregisters only task types that P's own load
\* registered: a descriptor another party registered under a name P reports
\* is still registered when unloadPlugin(P) has returned.
C40_UnloadKeepsForeignTypes ==
  [][(/\ PluginManagerStepped
      /\ pmLast'.op = "unloadPlugin" /\ pmLast'.step = "resume"
      /\ pmLast'.outcome = "returned") =>
       \A X \in DOMAIN taskTypes :
         taskTypes[X] \notin SeqRange(pmLast'.plugin.types) =>
           (MapHas(taskTypes', X) /\ taskTypes'[X] = taskTypes[X])]_vars

\* C25: reloadPlugin(path) first unloads the plugin the module at path exports
\* when that plugin is loaded (its destroy is the first thing invoked) and
\* otherwise starts as loadPlugin(path) does; a reloadPlugin that returned
\* leaves that plugin loaded with its task types registered.
C25_ReloadUnloadsThenLoads ==
  [][PluginManagerStepped =>
       LET module == PluginModules(pmLast'.caller.arg)
           plugin == module.plugin
       IN /\ (pmLast'.op = "reloadPlugin" /\ pmLast'.step = "call") =>
               IF module.resolves /\ isValidPlugin(plugin) /\ MapHas(plugins, plugin.name)
               THEN /\ pmLast'.invoked = "destroy"
                    /\ pmLast'.plugin.name = plugin.name
               ELSE pmLast'.invoked = "import"
          /\ (pmLast'.caller.op = "reloadPlugin" /\ pmLast'.callerOutcome = "returned") =>
               /\ MapHas(plugins', plugin.name)
               /\ \A i \in 1..Len(plugin.types) : MapHas(taskTypes', plugin.types[i].name)]_vars

\* what a step that ended a clear() call tells: the names clear had taken, in
\* load order, split into those it unloaded and those left from the failing one on
ClearEnded == pmLast.caller.op = "clear" /\ pmLast.callerOutcome \in {"returned", "threw"}
ClearLeft ==
  SubSeq(pmLast.caller.snapshot, Len(pmLast.caller.done) + 1, Len(pmLast.caller.snapshot))
ClearInOrder ==
  pmLast.caller.done = SubSeq(pmLast.caller.snapshot, 1, Len(pmLast.caller.done))

\* C26: clear() unloads the loaded plugins one after another in load order;
\* when every unload succeeded getLoadedPlugins() is empty and size() is 0;
\* when an unload fails clear() fails with that error, the plugins before it
\* are unloaded and the failing one and all later ones remain loaded.
C26_ClearUnloadsAll ==
  [][(PluginManagerStepped /\ ClearEnded') =>
       /\ ClearInOrder'
       /\ pmLast'.callerOutcome = "returned" =>
            /\ pmLast'.caller.done = pmLast'.caller.snapshot
            /\ getLoadedPlugins' = << >>
            /\ pluginManagerSize' = 0
       /\ pmLast'.callerOutcome = "threw" =>
            /\ ClearLeft' # << >>
            /\ pmLast'.callerError = pmLast'.error
            /\ \A i \in 1..Len(ClearLeft') : MapHas(plugins', ClearLeft'[i])]_vars

\* C26 as it holds: the same, where the emptiness after a successful clear()
\* and the error and the plugins left after a failed one are those of a
\* clear() during which no other call changed the set of loaded plugins.
C26_ClearUnloadsAllUndisturbed ==
  [][(PluginManagerStepped /\ ClearEnded') =>
       /\ ClearInOrder'
       /\ pmLast'.callerOutcome = "returned" =>
            /\ pmLast'.caller.done = pmLast'.caller.snapshot
            /\ pmLast'.caller.undisturbed =>
                 /\ getLoadedPlugins' = << >>
                 /\ pluginManagerSize' = 0
       /\ pmLast'.callerOutcome = "threw" =>
            /\ ClearLeft' # << >>
            /\ pmLast'.caller.undisturbed =>
                 /\ pmLast'.callerError = pmLast'.error
                 /\ pmLast'.error = "DestroyFailed"
                 /\ \A i \in 1..Len(ClearLeft') : MapHas(plugins', ClearLeft'[i])]_vars

\* a clear() of two plugins unloaded the first and failed on the second
C26_Witness ==
  /\ ClearEnded
  /\ pmLast.callerOutcome = "threw"
  /\ pmLast.caller.undisturbed
  /\ Len(pmLast.caller.snapshot) = 2
  /\ Len(pmLast.caller.done) = 1
  /\ getLoadedPlugins = ClearLeft

====
